---- MODULE Spec2Model ----
(***************************************************************************)
(* Subtitle timing engine of the brainrot video pipeline                   *)
(* (src/utils/subtitle_handler.py, src/utils/ass_highlight.py).            *)
(*                                                                         *)
(* Representation.                                                         *)
(*  - A Python str is a sequence of one-character strings, so that         *)
(*    strip(), split(), join() and replace() are computed, not assumed.    *)
(*  - A Python dict is a record whose DOMAIN is the set of keys present;   *)
(*    `k in d` is k \in DOMAIN d and d.get(k, dflt) is Get(d, k, dflt).    *)
(*  - A Python float is an IEEE-754 double: the natural number x * 2^75    *)
(*    in base 2^15, and every operation rounds its exact result to 53      *)
(*    significant bits, ties to even.  The times of this program are       *)
(*    non-negative and below 2^15 seconds.                                 *)
(*  - A formatted timestamp is the tuple of the integers that the format   *)
(*    string prints (zero padding carries no information).                 *)
(***************************************************************************)
EXTENDS Integers, Sequences, FiniteSets, TLC

\* ------------------------------------------------------------------ bounds
\* Largest number of word entries in the token list of the varied segment.
MaxWords == 3
\* Largest number of extra (simple) segments placed around the varied segment.
MaxSide == 1
\* Largest number of dialogue turns in a script.
MaxTurns == 2
\* Largest length of a text handed to escape_ass_text.
MaxText == 3

\* Number of topics in TOPICS_LIST.
MaxTopics == 2

\* ---------------------------------------------------------------- floats
\* A double x >= 0 is the natural number x * 2^75 written in base 2^15, least
\* significant limb first, without leading zero limbs (0.0 is <<>>).  Every
\* double in [2^-22, 2^15) is such a number and limb 6 is its integer part.
Base == 2 ^ 15

\* number of limbs below the binary point
FracLimbs == 75 \div 15

Limb(a, k) == IF 1 <= k /\ k <= Len(a) THEN a[k] ELSE 0

\* drop leading zero limbs
RECURSIVE Trim(_)
Trim(a) == IF a # <<>> /\ a[Len(a)] = 0 THEN Trim(SubSeq(a, 1, Len(a) - 1)) ELSE a

RECURSIVE AddFrom(_, _, _, _)
AddFrom(a, b, k, carry) ==
  IF k > Len(a) /\ k > Len(b)
  THEN (IF carry = 0 THEN <<>> ELSE <<carry>>)
  ELSE LET t == Limb(a, k) + Limb(b, k) + carry
       IN  <<t % Base>> \o AddFrom(a, b, k + 1, t \div Base)

\* a + b, exactly
BigAdd(a, b) == Trim(AddFrom(a, b, 1, 0))

RECURSIVE SubFrom(_, _, _, _)
SubFrom(a, b, k, borrow) ==
  IF k > Len(a) THEN <<>>
  ELSE LET t == Limb(a, k) - Limb(b, k) - borrow
       IN  <<t % Base>> \o SubFrom(a, b, k + 1, IF t < 0 THEN 1 ELSE 0)

\* a - b, exactly, for a >= b
BigSub(a, b) == Trim(SubFrom(a, b, 1, 0))

RECURSIVE CmpFrom(_, _, _)
CmpFrom(a, b, k) ==
  IF k = 0 THEN 0
  ELSE IF a[k] < b[k] THEN -1
  ELSE IF a[k] > b[k] THEN 1
  ELSE CmpFrom(a, b, k - 1)

\* -1, 0, 1 as a < b, a = b, a > b
BigCmp(a, b) ==
  IF Len(a) < Len(b) THEN -1
  ELSE IF Len(a) > Len(b) THEN 1
  ELSE CmpFrom(a, b, Len(a))

RECURSIVE MulSmallFrom(_, _, _, _)
MulSmallFrom(a, m, k, carry) ==
  IF k > Len(a) THEN (IF carry = 0 THEN <<>> ELSE <<carry>>)
  ELSE LET t == a[k] * m + carry
       IN  <<t % Base>> \o MulSmallFrom(a, m, k + 1, t \div Base)

\* a * m, exactly, for an integer 0 <= m < Base
BigMulSmall(a, m) == Trim(MulSmallFrom(a, m, 1, 0))

\* a * Base^n
ShiftLimbs(a, n) == IF a = <<>> THEN <<>> ELSE [k \in 1..n |-> 0] \o a

RECURSIVE MulFrom(_, _, _)
MulFrom(a, b, j) ==
  IF j > Len(b) THEN <<>>
  ELSE BigAdd(ShiftLimbs(BigMulSmall(a, b[j]), j - 1), MulFrom(a, b, j + 1))

\* a * b, exactly
BigMul(a, b) == MulFrom(a, b, 1)

\* long division from the top limb down; quot collects the limbs found so far
RECURSIVE DivSmallFrom(_, _, _, _, _)
DivSmallFrom(a, n, k, rem, quot) ==
  IF k = 0 THEN [quot |-> quot, rem |-> rem]
  ELSE DivSmallFrom(a, n, k - 1, (rem * Base + a[k]) % n,
                    <<(rem * Base + a[k]) \div n>> \o quot)

\* quotient (with leading zero limbs) and remainder of a by an integer 0 < n < Base
BigDivSmall(a, n) == DivSmallFrom(a, n, Len(a), 0, <<>>)

RECURSIVE SmallBitLen(_)
SmallBitLen(x) == IF x = 0 THEN 0 ELSE 1 + SmallBitLen(x \div 2)

\* number of significant bits of a
BitLen(a) == IF a = <<>> THEN 0 ELSE (Len(a) - 1) * 15 + SmallBitLen(a[Len(a)])

\* d bits are WholeLimbs(d) limbs and OddBits(d) bits
WholeLimbs(d) == d \div 15

OddBits(d) == d % 15

\* floor(a / 2^d)
ShiftRight(a, d) ==
  IF Len(a) <= WholeLimbs(d) THEN <<>>
  ELSE Trim([k \in 1..(Len(a) - WholeLimbs(d)) |->
               (Limb(a, k + WholeLimbs(d)) \div (2 ^ OddBits(d)))
               + (Limb(a, k + WholeLimbs(d) + 1) % (2 ^ OddBits(d))) * (2 ^ (15 - OddBits(d)))])

\* a * 2^d
ShiftLeft(a, d) ==
  IF a = <<>> THEN <<>>
  ELSE Trim([k \in 1..(Len(a) + WholeLimbs(d) + 1) |->
               IF k <= WholeLimbs(d) THEN 0
               ELSE ((Limb(a, k - WholeLimbs(d)) % (2 ^ (15 - OddBits(d)))) * (2 ^ OddBits(d)))
                    + (Limb(a, k - WholeLimbs(d) - 1) \div (2 ^ (15 - OddBits(d))))])

\* a mod 2^d
LowBits(a, d) ==
  Trim([k \in 1..(WholeLimbs(d) + 1) |->
          IF k <= WholeLimbs(d) THEN Limb(a, k) ELSE Limb(a, k) % (2 ^ OddBits(d))])

\* round to nearest, ties to even: q the kept bits, c the dropped bits
\* compared with half a unit of q (-1, 0, 1), sticky as in Round53
RoundUp(q, c, sticky) ==
  IF c = 1 \/ (c = 0 /\ (sticky \/ q[1] % 2 = 1)) THEN BigAdd(q, <<1>>) ELSE q

\* a with its d lowest bits rounded away
RoundAt(a, sticky, d) ==
  ShiftLeft(RoundUp(ShiftRight(a, d),
                    BigCmp(LowBits(a, d), ShiftLeft(<<1>>, d - 1)), sticky), d)

\* a rounded to 53 significant bits, ties to even; sticky: the exact value
\* lies strictly between a and a + 1
Round53(a, sticky) ==
  IF BitLen(a) <= 53 THEN a ELSE RoundAt(a, sticky, BitLen(a) - 53)

\* a / Base^n for a multiple a of Base^n
DropLimbs(a, n) == SubSeq(a, n + 1, Len(a))

\* float(n) for an integer 0 <= n < Base
FromInt(n) == ShiftLimbs(Trim(<<n>>), FracLimbs)

\* the quotient r of a long division, as a double
RoundQuotient(r, n) == DropLimbs(Round53(Trim(r.quot), r.rem # 0), n)

\* i / n for integers 0 <= i < Base, 0 < n < Base
FDivInt(i, n) ==
  RoundQuotient(BigDivSmall(ShiftLimbs(Trim(<<i>>), FracLimbs + 3), n), 3)

\* a + b
FAdd(a, b) == Round53(BigAdd(a, b), FALSE)

\* a - b for a >= b
FSub(a, b) == Round53(BigSub(a, b), FALSE)

\* a * b
FMul(a, b) == DropLimbs(Round53(BigMul(a, b), FALSE), FracLimbs)

\* a * m for an integer 0 <= m < Base
FMulInt(a, m) == Round53(BigMulSmall(a, m), FALSE)

\* a < b, a <= b
FLess(a, b) == BigCmp(a, b) = -1

FLeq(a, b) == BigCmp(a, b) # 1

\* max(a, b)
Max(a, b) == IF FLeq(b, a) THEN a ELSE b

\* min(a, b)
Min(a, b) == IF FLeq(b, a) THEN b ELSE a

\* a / n for a double a >= 2^-22 and an integer 0 < n < Base
FDiv(a, n) == RoundQuotient(BigDivSmall(ShiftLimbs(a, 3), n), 3)

\* a - b < c for c > 0
MinusLess(a, b, c) == FLess(a, b) \/ FLess(FSub(a, b), c)

\* a - b > c for c >= 0
MinusMore(a, b, c) == FLess(b, a) /\ FLess(c, FSub(a, b))

\* int(a)
Floor(a) == Limb(a, FracLimbs + 1)

\* a % 1
Frac(a) == Trim(SubSeq(a, 1, IF Len(a) < FracLimbs THEN Len(a) ELSE FracLimbs))

\* the literals 0.0, 0.1, ..., 12.0; a decimal literal is the nearest double
Tenths == [n \in 0..120 |-> FDivInt(n, 10)]

\* the literal n/10 (0.5 is T(5))
T(n) == Tenths[n]

\* config.py
WORDS_PER_LINE == 2

\* --------------------------------------------------------------- strings
SPACE == " "

RECURSIVE LStrip(_)
LStrip(s) == IF s # <<>> /\ Head(s) = SPACE THEN LStrip(Tail(s)) ELSE s

RECURSIVE RStrip(_)
RStrip(s) ==
  IF s # <<>> /\ s[Len(s)] = SPACE THEN RStrip(SubSeq(s, 1, Len(s) - 1)) ELSE s

\* str.strip()
Strip(s) == RStrip(LStrip(s))

\* str.split(): maximal runs of non-whitespace, no empty strings
RECURSIVE SplitFrom(_, _, _)
SplitFrom(s, cur, out) ==
  IF s = <<>> THEN (IF cur = <<>> THEN out ELSE Append(out, cur))
  ELSE IF Head(s) = SPACE
       THEN SplitFrom(Tail(s), <<>>, IF cur = <<>> THEN out ELSE Append(out, cur))
       ELSE SplitFrom(Tail(s), Append(cur, Head(s)), out)

Split(s) == SplitFrom(s, <<>>, <<>>)

\* " ".join(parts)
RECURSIVE Join(_)
Join(parts) ==
  IF parts = <<>> THEN <<>>
  ELSE IF Len(parts) = 1 THEN parts[1]
  ELSE parts[1] \o <<SPACE>> \o Join(Tail(parts))

\* text.replace(ch, rep) for a one-character pattern ch
RECURSIVE Replace(_, _, _)
Replace(s, ch, rep) ==
  IF s = <<>> THEN <<>>
  ELSE (IF Head(s) = ch THEN rep ELSE <<Head(s)>>) \o Replace(Tail(s), ch, rep)

\* ----------------------------------------------------------------- dicts
Has(d, k) == k \in DOMAIN d

Get(d, k, dflt) == IF k \in DOMAIN d THEN d[k] ELSE dflt

\* faulty variant of format_srt_time: the milliseconds are rounded to the
\* nearest instead of truncated
format_srt_time_Rounded(seconds) ==
  <<Floor(seconds) \div 3600, (Floor(seconds) % 3600) \div 60, Floor(seconds) % 60,
    Floor(FAdd(FMulInt(Frac(seconds), 1000), T(5)))>>

\* ------------------------------------------------------------ timestamps
\* format_srt_time: <<hours, minutes, secs, millisecs>> of "HH:MM:SS,mmm".
\* // and % of a float by an integer are exact.
format_srt_time(seconds) ==
  LET hours     == Floor(seconds) \div 3600
      minutes   == (Floor(seconds) % 3600) \div 60
      secs      == Floor(seconds) % 60
      millisecs == Floor(FMulInt(Frac(seconds), 1000))
  IN  <<hours, minutes, secs, millisecs>>

\* format_ass_time: <<hours, minutes, secs, centisecs>> of "H:MM:SS.cc"
format_ass_time(seconds) ==
  LET hours     == Floor(seconds) \div 3600
      minutes   == (Floor(seconds) % 3600) \div 60
      secs      == Floor(seconds) % 60
      centisecs == Floor(FMulInt(Frac(seconds), 100))
  IN  <<hours, minutes, secs, centisecs>>

\* The time a formatted SRT timestamp denotes, in milliseconds.
SrtMillis(t) == ((t[1] * 60 + t[2]) * 60 + t[3]) * 1000 + t[4]

\* ------------------------------------------------- line track (SRT)
\* One cue as written to an .srt file: index, "start --> end", text.  The
\* remaining fields are not written; they record what the cue was computed
\* from: t0/t1 the unformatted times, toks the word entries of the chunk
\* (empty for an interpolated chunk), chunk the words displayed.
SrtCue(index, start_time, end_time, text, toks, chunk) ==
  [index |-> index,
   start |-> format_srt_time(start_time),
   end   |-> format_srt_time(end_time),
   text  |-> text,
   t0    |-> start_time,
   t1    |-> end_time,
   toks  |-> toks,
   chunk |-> chunk]

\* faulty variant of NextIndex: the increment is forgotten
NextIndex_Stuck(index) == index

\* `subtitle_entry_index += 1` / `subtitle_index += 1` after a cue is written
NextIndex(index) == index + 1

\* Python's None as the value of segment["words"]: a one-entry list that no
\* list of word entries equals
None == << [none |-> TRUE] >>

\* `"words" in segment and segment["words"]`: the key is present and its
\* value is neither None nor the empty list
HasWordList(segment) ==
  Has(segment, "words") /\ segment.words # None /\ segment.words # <<>>

\* faulty variant of FlushLine: a final partial chunk is never flushed
FlushLine_FullOnly(cur, i, n) == Len(cur) = WORDS_PER_LINE

\* `len(current_words_in_line) == WORDS_PER_LINE or i == len(segment["words"]) - 1`
\* (i counts from 1 here, so the last entry is i = n)
FlushLine(cur, i, n) == Len(cur) = WORDS_PER_LINE \/ i = n

\* `all(... "start" in w and "end" in w for w in current_words_in_line)`
AllTimed(cur) == \A k \in 1..Len(cur) : Has(cur[k], "start") /\ Has(cur[k], "end")

\* start_time, end_time of a chunk of word entries, before the floor
ChunkTimes(segment, cur) ==
  IF ~AllTimed(cur)
  THEN LET start_time == Get(segment, "start", FromInt(0))
       IN  <<start_time, Get(segment, "end", FAdd(start_time, FromInt(1)))>>
  ELSE <<cur[1].start, cur[Len(cur)].end>>

\* `if end_time - start_time < 0.5: end_time = start_time + 0.5`
LineEnd(start_time, end_time) ==
  IF MinusLess(end_time, start_time, T(5)) THEN FAdd(start_time, T(5)) ELSE end_time

\* the stripped words of a chunk of word entries
ChunkWords(cur) == [k \in 1..Len(cur) |-> Strip(cur[k].word)]

\* the loop over segment["words"]; returns the next index and the cues
RECURSIVE SrtWords(_, _, _, _, _)
SrtWords(segment, i, cur, index, out) ==
  LET n == Len(segment.words) IN
  IF i > n THEN [index |-> index, out |-> out]
  ELSE LET word_info == segment.words[i] IN
       IF ~Has(word_info, "word")
       THEN SrtWords(segment, i + 1, cur, index, out)
       ELSE LET line == Append(cur, word_info) IN
            IF FlushLine(line, i, n)
            THEN LET tm  == ChunkTimes(segment, line)
                     cue == SrtCue(index, tm[1], LineEnd(tm[1], tm[2]),
                                   Join(ChunkWords(line)), line, ChunkWords(line))
                 IN  SrtWords(segment, i + 1, <<>>, NextIndex(index), Append(out, cue))
            ELSE SrtWords(segment, i + 1, line, index, out)

\* seg_duration of a segment without word entries
SegDuration(segment, num_original_words) ==
  LET seg_start_time == Get(segment, "start", FromInt(0))
      estimate       == FMulInt(T(2), num_original_words)
      seg_end_time   == Get(segment, "end", FAdd(seg_start_time, estimate))
  IN  IF FLeq(seg_end_time, seg_start_time)
      THEN (IF FLeq(estimate, FromInt(0)) THEN T(5) ELSE estimate)
      ELSE FSub(seg_end_time, seg_start_time)

\* words[i : i + WORDS_PER_LINE], i counted from 0
Slice(words, i) ==
  SubSeq(words, i + 1, IF i + WORDS_PER_LINE < Len(words) THEN i + WORDS_PER_LINE ELSE Len(words))

\* seg_start_time + (k / num_original_words) * seg_duration
Interpolate(seg_start_time, k, num_original_words, seg_duration) ==
  FAdd(seg_start_time, FMul(FDivInt(k, num_original_words), seg_duration))

\* faulty variant of FallbackLineEnd: the cap without the floor
FallbackLineEnd_NoFloor(start_time, end_time) ==
  IF MinusMore(end_time, start_time, T(30)) THEN FAdd(start_time, T(30)) ELSE end_time

\* end_time of an interpolated chunk in create_srt_file: floor, cap, guard
FallbackLineEnd(start_time, end_time) ==
  LET e == IF MinusLess(end_time, start_time, T(5)) THEN FAdd(start_time, T(5))
           ELSE IF MinusMore(end_time, start_time, T(30)) THEN FAdd(start_time, T(30))
           ELSE end_time
  IN  IF FLeq(e, start_time) THEN FAdd(start_time, T(5)) ELSE e

\* `for i in range(0, num_original_words, WORDS_PER_LINE)` of create_srt_file
RECURSIVE SrtChunks(_, _, _, _, _)
SrtChunks(segment, words, i, index, out) ==
  LET n == Len(words) IN
  IF i >= n THEN [index |-> index, out |-> out]
  ELSE LET chunk_words == Slice(words, i)
           seg_start   == Get(segment, "start", FromInt(0))
           dur         == SegDuration(segment, n)
           start_time  == Interpolate(seg_start, i, n, dur)
           end_time    == Interpolate(seg_start, i + Len(chunk_words), n, dur)
           cue == SrtCue(index, start_time, FallbackLineEnd(start_time, end_time),
                         Join(chunk_words), <<>>, chunk_words)
       IN  SrtChunks(segment, words, i + WORDS_PER_LINE, NextIndex(index), Append(out, cue))

\* faulty variant of SrtSegment: a segment without word entries is skipped
SrtSegment_WordsOnly(segment, index, out) ==
  IF HasWordList(segment)
  THEN SrtWords(segment, 1, <<>>, index, out)
  ELSE [index |-> index, out |-> out]

\* the body of `for segment in segments` of create_srt_file
SrtSegment(segment, index, out) ==
  IF HasWordList(segment)
  THEN SrtWords(segment, 1, <<>>, index, out)
  ELSE LET words_in_original_text == Split(Strip(Get(segment, "text", <<>>)))
       IN  IF Len(words_in_original_text) = 0
           THEN [index |-> index, out |-> out]
           ELSE SrtChunks(segment, words_in_original_text, 0, index, out)

RECURSIVE SrtSegments(_, _, _, _)
SrtSegments(segments, k, index, out) ==
  IF k > Len(segments) THEN out
  ELSE LET r == SrtSegment(segments[k], index, out)
       IN  SrtSegments(segments, k + 1, r.index, r.out)

\* create_srt_file(segments, output_path): the cues written to output_path
create_srt_file(segments) == SrtSegments(segments, 1, 1, <<>>)

\* ------------------------------------------------- word track (SRT)
\* `if end_time - start_time < 0.3: end_time = start_time + 0.3`
WordEnd(start_time, end_time) ==
  IF MinusLess(end_time, start_time, T(3)) THEN FAdd(start_time, T(3)) ELSE end_time

\* word_info["word"], word_info["start"], word_info["end"] all succeed
WordKeysPresent(word_info) ==
  Has(word_info, "word") /\ Has(word_info, "start") /\ Has(word_info, "end")

\* `for word_info in segment["words"]`; raised: a KeyError left the function,
\* the cues written before it stay in the file.  Iterating over None raises
\* TypeError.
RECURSIVE WordLoop(_, _, _, _)
WordLoop(words, i, index, out) ==
  IF i > Len(words) THEN [index |-> index, out |-> out, raised |-> FALSE]
  ELSE LET word_info == words[i] IN
       IF ~WordKeysPresent(word_info)
       THEN [index |-> index, out |-> out, raised |-> TRUE]
       ELSE LET cue == SrtCue(index, word_info.start,
                              WordEnd(word_info.start, word_info.end),
                              Strip(word_info.word), <<word_info>>,
                              <<Strip(word_info.word)>>)
            IN  WordLoop(words, i + 1, NextIndex(index), Append(out, cue))

RECURSIVE WordSegments(_, _, _, _)
WordSegments(segments, k, index, out) ==
  IF k > Len(segments) THEN [out |-> out, raised |-> FALSE]
  ELSE IF Has(segments[k], "words")
       THEN LET r == IF segments[k].words = None
                     THEN [index |-> index, out |-> out, raised |-> TRUE]
                     ELSE WordLoop(segments[k].words, 1, index, out)
            IN  IF r.raised THEN [out |-> r.out, raised |-> TRUE]
                ELSE WordSegments(segments, k + 1, r.index, r.out)
       ELSE WordSegments(segments, k + 1, index, out)

\* create_word_level_srt(segments, output_path)
create_word_level_srt(segments) == WordSegments(segments, 1, 1, <<>>)

\* --------------------------------------------- highlight track (ASS)
\* config.py: ASS_BASE_COLOR = "&H00FFFFFF", ASS_HIGHLIGHT_COLOR = "&H0000FF00"
ASS_BASE_COLOR == <<"&", "H", "0", "0", "F", "F", "F", "F", "F", "F">>

ASS_HIGHLIGHT_COLOR == <<"&", "H", "0", "0", "0", "0", "F", "F", "0", "0">>

\* f"{{\\c{color}&}}": the override tag {\c<color>&}
ColourTag(color) == <<"{", "\\", "c">> \o color \o <<"&", "}">>

\* escape_ass_text: the three replace() calls in the order they are chained
escape_ass_text(text) ==
  Replace(Replace(Replace(text, "{", <<"\\", "{">>), "}", <<"\\", "}">>),
          "\\", <<"\\", "\\">>)

\* One Dialogue event: formatted start and end, and the text after the
\* last comma.  Not written: t0/t1 the unformatted times, line the ordinal
\* of the chunk the event displays, chunk the words of that chunk, hl the
\* position of the highlighted word (0: none).
AssEvent(start_time, end_time, text, line, chunk, hl) ==
  [start |-> format_ass_time(start_time),
   end   |-> format_ass_time(end_time),
   text  |-> text,
   t0    |-> start_time,
   t1    |-> end_time,
   line  |-> line,
   chunk |-> chunk,
   hl    |-> hl]

\* ass_line: the chunk with word j wrapped in the highlight colour
AssLine(cur, j) ==
  Join([k \in 1..Len(cur) |->
          LET word_txt == escape_ass_text(Strip(cur[k].word))
          IN  IF k = j
              THEN ColourTag(ASS_HIGHLIGHT_COLOR) \o word_txt \o ColourTag(ASS_BASE_COLOR)
              ELSE word_txt])

\* `if line_end - line_start < 0.5: line_end = line_start + 0.5`
AssLineEnd(line_start, line_end) ==
  IF MinusLess(line_end, line_start, T(5)) THEN FAdd(line_start, T(5)) ELSE line_end

\* word_start, word_end of the event for one word of a chunk.  line_end is
\* computed by the code and not read again.
AssWordTimes(word_info, line_start, line_end) ==
  LET word_start == Get(word_info, "start", line_start)
  IN  <<word_start, Get(word_info, "end", FAdd(word_start, T(3)))>>

\* `for j, word_info in enumerate(current_words_in_line)`
AssChunkEvents(segment, cur, line) ==
  LET tm         == ChunkTimes(segment, cur)
      line_start == tm[1]
      line_end   == AssLineEnd(tm[1], tm[2])
  IN  [j \in 1..Len(cur) |->
         LET wt == AssWordTimes(cur[j], line_start, line_end)
         IN  AssEvent(wt[1], wt[2], AssLine(cur, j), line, ChunkWords(cur), j)]

\* faulty variant of AssFlushLine: a final partial chunk is never flushed
AssFlushLine_FullOnly(cur, i, n) == Len(cur) = WORDS_PER_LINE

\* `len(current_words_in_line) == WORDS_PER_LINE or i == len(segment["words"]) - 1`
\* in generate_ass_highlight
AssFlushLine(cur, i, n) == Len(cur) = WORDS_PER_LINE \/ i = n

\* the loop over segment["words"]; line is the number of chunks emitted so far
RECURSIVE AssWords(_, _, _, _, _)
AssWords(segment, i, cur, line, events) ==
  LET n == Len(segment.words) IN
  IF i > n THEN [line |-> line, events |-> events]
  ELSE LET word_info == segment.words[i] IN
       IF ~Has(word_info, "word")
       THEN AssWords(segment, i + 1, cur, line, events)
       ELSE LET cur2 == Append(cur, word_info) IN
            IF AssFlushLine(cur2, i, n)
            THEN AssWords(segment, i + 1, <<>>, line + 1,
                          events \o AssChunkEvents(segment, cur2, line + 1))
            ELSE AssWords(segment, i + 1, cur2, line, events)

\* words[i : i + WORDS_PER_LINE] in generate_ass_highlight
AssSlice(words, i) ==
  SubSeq(words, i + 1, IF i + WORDS_PER_LINE < Len(words) THEN i + WORDS_PER_LINE ELSE Len(words))

\* `for i in range(0, num_original_words, WORDS_PER_LINE)` of generate_ass_highlight
RECURSIVE AssChunks(_, _, _, _, _)
AssChunks(segment, words, i, line, events) ==
  LET n == Len(words) IN
  IF i >= n THEN [line |-> line, events |-> events]
  ELSE LET chunk_words == AssSlice(words, i)
           seg_start   == Get(segment, "start", FromInt(0))
           dur         == SegDuration(segment, n)
           line_start  == Interpolate(seg_start, i, n, dur)
           line_end    == Interpolate(seg_start, i + Len(chunk_words), n, dur)
           line_text   == Join([k \in 1..Len(chunk_words) |-> escape_ass_text(chunk_words[k])])
           ev == AssEvent(line_start, AssLineEnd(line_start, line_end), line_text,
                          line + 1, chunk_words, 0)
       IN  AssChunks(segment, words, i + WORDS_PER_LINE, line + 1, Append(events, ev))

\* the body of `for segment in segments` of generate_ass_highlight
AssSegment(segment, line, events) ==
  IF HasWordList(segment)
  THEN AssWords(segment, 1, <<>>, line, events)
  ELSE LET words_in_original_text == Split(Strip(Get(segment, "text", <<>>)))
       IN  IF Len(words_in_original_text) = 0
           THEN [line |-> line, events |-> events]
           ELSE AssChunks(segment, words_in_original_text, 0, line, events)

RECURSIVE AssSegments(_, _, _, _)
AssSegments(segments, k, line, events) ==
  IF k > Len(segments) THEN events
  ELSE LET r == AssSegment(segments[k], line, events)
       IN  AssSegments(segments, k + 1, r.line, r.events)

\* generate_ass_highlight(segments, output_path): the Dialogue events written
generate_ass_highlight(segments) == AssSegments(segments, 1, 0, <<>>)

\* ------------------------------------------------- attribution track
\* A file of temp_audio is [idx, actor, duration, probe]: its name is
\* "<idx>_<actor>.wav", duration its true length, probe whether ffprobe
\* reports it (get_audio_duration returns the duration) or fails (None).

\* sorted(temp_audio_dir.glob("*.wav"), key=int(stem.split('_')[0]))
RECURSIVE SortedByIndex(_)
SortedByIndex(files) ==
  IF files = {} THEN <<>>
  ELSE LET first == CHOOSE f \in files : \A g \in files : f.idx <= g.idx
       IN  <<first>> \o SortedByIndex(files \ {first})

\* get_audio_duration(audio_file): 0.0 stands for None
get_audio_duration(audio_file) ==
  IF audio_file.probe THEN audio_file.duration ELSE FromInt(0)

\* max(2.0, len(line) * 0.1)
FallbackDuration(line) == Max(FromInt(2), FMulInt(T(1), Len(line)))

\* faulty variant of ClipDuration: the probed duration is ignored
ClipDuration_Estimated(audio_file, turn) == FallbackDuration(turn.line)

\* the duration create_segments_from_audio_files gives clip i:
\* `if duration:` is false for None and for 0.0
ClipDuration(audio_file, turn) ==
  LET duration == get_audio_duration(audio_file)
  IN  IF duration # FromInt(0) THEN duration ELSE FallbackDuration(turn.line)

\* `for i, audio_file in enumerate(audio_files)`, i counted from 1
RECURSIVE SegmentsLoop(_, _, _, _, _)
SegmentsLoop(audio_files, the_script, i, current_time, segs) ==
  IF i > Len(audio_files) THEN segs
  ELSE IF i <= Len(the_script)
       THEN LET d == ClipDuration(audio_files[i], the_script[i])
                seg == [start     |-> current_time,
                        end       |-> FAdd(current_time, d),
                        character |-> the_script[i].actor,
                        text      |-> the_script[i].line]
            IN  SegmentsLoop(audio_files, the_script, i + 1, FAdd(current_time, d),
                             Append(segs, seg))
       ELSE SegmentsLoop(audio_files, the_script, i + 1, current_time, segs)

\* create_segments_from_audio_files(temp_audio_dir, script)
create_segments_from_audio_files(files, the_script) ==
  SegmentsLoop(SortedByIndex(files), the_script, 1, FromInt(0), <<>>)

\* create_character_srt_from_segments(segments, output_path):
\* `for i, segment in enumerate(segments, 1)`
create_character_srt_from_segments(segs) ==
  [i \in 1..Len(segs) |->
     SrtCue(i, segs[i].start, segs[i].end, segs[i].character,
            <<>>, <<>>)]

\* create_character_srt_file(segments, script, output_path)
RECURSIVE CharacterLoop(_, _, _, _, _, _)
CharacterLoop(segments, the_script, k, subtitle_index, script_index, out) ==
  IF k > Len(segments) \/ script_index >= Len(the_script) THEN out
  ELSE LET current_character == the_script[script_index + 1].actor
           start_time == Get(segments[k], "start", FromInt(0))
           end_time   == Get(segments[k], "end", FAdd(start_time, FromInt(1)))
           cue == SrtCue(subtitle_index, start_time, end_time, current_character,
                         <<>>, <<>>)
       IN  CharacterLoop(segments, the_script, k + 1, NextIndex(subtitle_index),
                         script_index + 1, Append(out, cue))

\* faulty variant of create_character_srt_file: every cue names the first
\* speaker
create_character_srt_file_FirstTurn(segments, the_script) ==
  CharacterLoop(segments, [i \in 1..Len(the_script) |-> the_script[1]], 1, 1, 0, <<>>)

create_character_srt_file(segments, the_script) ==
  CharacterLoop(segments, the_script, 1, 1, 0, <<>>)

\* ------------------------------------------ fallback from the script
\* `max(1.5, min(3.0, len(text) / 12))`
EstimatedDuration(text) == Max(T(15), Min(T(30), FDivInt(Len(text), 12)))

\* `estimated_duration / len(words) if words else 1.0`
WordDuration(estimated_duration, words) ==
  IF words # <<>> THEN FDiv(estimated_duration, Len(words)) ELSE FromInt(1)

\* `for word in words`: the entries appended to word_segments for one turn
RECURSIVE TurnWordSegments(_, _, _, _)
TurnWordSegments(words, j, word_time, word_duration) ==
  IF j > Len(words) THEN <<>>
  ELSE << [start |-> word_time, end |-> FAdd(word_time, word_duration), word |-> words[j]] >>
         \o TurnWordSegments(words, j + 1, FAdd(word_time, word_duration), word_duration)

\* `for dialogue in script` of create_fallback_subtitles
RECURSIVE FallbackLoop(_, _, _, _, _)
FallbackLoop(the_script, i, current_time, segs, word_segments) ==
  IF i > Len(the_script) THEN [segments |-> segs, word_segments |-> word_segments]
  ELSE FallbackLoop(the_script, i + 1,
                    FAdd(current_time, EstimatedDuration(the_script[i].line)),
                    Append(segs, [start |-> current_time,
                                  end   |-> FAdd(current_time, EstimatedDuration(the_script[i].line)),
                                  text  |-> the_script[i].line]),
                    word_segments
                      \o TurnWordSegments(Split(the_script[i].line), 1, current_time,
                                          WordDuration(EstimatedDuration(the_script[i].line),
                                                       Split(the_script[i].line))))

\* segments and word_segments as create_fallback_subtitles builds them
FallbackEstimates(the_script) == FallbackLoop(the_script, 1, FromInt(0), <<>>, <<>>)

\* ------------------------------------------------------------ inputs
\* Word entries a transcriber can return for one segment, in time order.
\* Three of them lack a key ("start", "word", "end").
WordPool ==
  << [word |-> <<"H", "i">>, start |-> T(0), end |-> T(4)],
     [word |-> <<"u", "h">>, end |-> T(4)],
     [word |-> <<"t", "h", "e", "r", "e">>, start |-> T(4), end |-> T(9)],
     [start |-> T(9), end |-> T(9)],
     [word |-> <<"f", "r", "i", "e", "n", "d">>, start |-> T(9), end |-> T(15)],
     [word |-> <<" ", "s", "o">>, start |-> T(15), end |-> T(16)],
     [word |-> <<"o", "k">>, start |-> T(16), end |-> T(20)],
     [word |-> <<"u", "m">>, start |-> T(20), end |-> T(20)],
     [word |-> <<"e", "h">>, start |-> T(20)] >>

\* the entries of WordPool at the positions in S, in pool order
RECURSIVE Pick(_, _)
Pick(S, k) ==
  IF k > Len(WordPool) THEN <<>>
  ELSE (IF k \in S THEN <<WordPool[k]>> ELSE <<>>) \o Pick(S, k + 1)

WordLists ==
  { Pick(S, 1) : S \in { X \in SUBSET (1..Len(WordPool)) : Cardinality(X) <= MaxWords } }

TheSkyIsBlueToday ==
  <<"T", "h", "e", " ", "s", "k", "y", " ", "i", "s", " ",
    "b", "l", "u", "e", " ", "t", "o", "d", "a", "y">>

\* segments carrying a "words" list (possibly empty) or "words": None
SegmentsWithWords ==
  { [start |-> T(0), end |-> T(40),
     text  |-> <<"H", "i", " ", "t", "h", "e", "r", "e">>,
     words |-> ws] : ws \in WordLists \cup {None} }

\* segments without the "words" key
TextPool ==
  { TheSkyIsBlueToday,
    <<" ", "a", " ", " ", "b", " ", "c", " ">>,
    <<"{", "x", "}">>,
    <<" ", " ">> }

SegmentsWithoutWords ==
  { [start |-> sp[1], end |-> sp[2], text |-> tx] :
      sp \in { <<T(0), T(24)>>, <<T(0), T(10)>>, <<T(0), T(120)>>, <<T(10), T(10)>> },
      tx \in TextPool }
  \cup { [start |-> T(0), text |-> tx] : tx \in TextPool }

SegmentPool == SegmentsWithWords \cup SegmentsWithoutWords

\* segments placed before and after the varied one
LeadPool == { [start |-> T(0), end |-> T(0), text |-> <<" ">>] }

TrailPool ==
  { [start |-> T(40), end |-> T(41), text |-> <<"n", "o">>,
     words |-> << [word |-> <<"n", "o">>, start |-> T(40), end |-> T(41)] >>],
    [start |-> T(40), end |-> T(50), text |-> <<"a", " ", "b", " ", "c">>] }

\* sequences over S of length at most n
RECURSIVE SeqsUpTo(_, _)
SeqsUpTo(S, n) ==
  IF n = 0 THEN { <<>> }
  ELSE LET shorter == SeqsUpTo(S, n - 1)
       IN  shorter \cup { Append(q, x) : q \in shorter, x \in S }

Transcripts ==
  { side[1] \o <<seg>> \o side[2] :
      side \in { sd \in SeqsUpTo(LeadPool, MaxSide) \X SeqsUpTo(TrailPool, MaxSide) :
                   Len(sd[1]) + Len(sd[2]) <= MaxSide },
      seg \in SegmentPool }

\* the scenario transcripts of the specification's section 8
WordTimedScenario ==
  << [start |-> T(0), end |-> T(40),
      text  |-> <<"H", "i", " ", "t", "h", "e", "r", "e">>,
      words |-> <<WordPool[1], WordPool[3], WordPool[5]>>] >>

FallbackScenario == << [start |-> T(0), end |-> T(24), text |-> TheSkyIsBlueToday] >>

\* config.py CHARACTERS
Characters == {"Peter", "Stewie"}

LinePool == { TheSkyIsBlueToday, <<"N", "o">>, <<" ", " ">> }

Scripts ==
  SeqsUpTo({ [actor |-> a, line |-> l] : a \in Characters, l \in LinePool }, MaxTurns)
    \ { <<>> }

\* a line of 40 characters: its estimate len/12 exceeds the 3.0 s cap
LongLine == [k \in 1..40 |-> IF k = 21 THEN " " ELSE "a"]

\* scripts handed to create_fallback_subtitles
FallbackScripts ==
  SeqsUpTo({ [actor |-> a, line |-> l] : a \in Characters, l \in LinePool \cup {LongLine} },
           MaxTurns)
    \ { <<>> }

\* length of the clip the synthesizer produces for a line
SpeechDuration(line) == IF line = TheSkyIsBlueToday THEN T(24) ELSE T(15)

\* synthesize_audio writes "<idx>_<actor>.wav" for every turn whose stripped
\* text is not empty; idx counts the turns from 0
SpokenTurns(the_script) == { i \in 1..Len(the_script) : Strip(the_script[i].line) # <<>> }

ClipSets(the_script) ==
  { { [idx |-> i - 1, duration |-> SpeechDuration(the_script[i].line), probe |-> p[i]] :
        i \in SpokenTurns(the_script) } :
      p \in [SpokenTurns(the_script) -> BOOLEAN] }

\* length of the concatenation of the clips (combine_audio), exactly
RECURSIVE SumDurations(_)
SumDurations(files) ==
  IF files = {} THEN FromInt(0)
  ELSE LET f == CHOOSE f \in files : TRUE
       IN  BigAdd(f.duration, SumDurations(files \ {f}))

\* the latest time a transcript mentions
RECURSIVE WordsEnd(_)
WordsEnd(ws) ==
  IF ws = <<>> THEN FromInt(0)
  ELSE Max(Max(Get(Head(ws), "start", FromInt(0)), Get(Head(ws), "end", FromInt(0))),
           WordsEnd(Tail(ws)))

RECURSIVE TranscriptEnd(_)
TranscriptEnd(segs) ==
  IF segs = <<>> THEN FromInt(0)
  ELSE LET seg == Head(segs)
       IN  Max(Max(Max(Get(seg, "start", FromInt(0)), Get(seg, "end", FromInt(0))),
                   WordsEnd(Get(seg, "words", <<>>))),
               TranscriptEnd(Tail(segs)))

\* ------------------------------------------------------- state machine
\* create_simple_subtitles(audio_path, script, output_dir), one action per
\* function it calls, in the order it calls them.
VARIABLES
  script,               \* the dialogue turns
  temp_audio_exists,    \* output_dir/temp_audio exists
  temp_audio,           \* its *.wav files
  total_duration,       \* length of the master audio
  transcriber,          \* "returns", "raises", or "no_segments": it returns a
                        \* dict without the "segments" key
  transcript,           \* the "segments" the transcriber returns for the master
                        \* audio (<<>> when it returns none)
  master_probe,         \* ffprobe prints the duration of the master audio
  result,               \* result["segments"] once transcribed
  segments,             \* create_segments_from_audio_files' return value
  character_subtitles,  \* character_subtitles.srt
  subtitles,            \* subtitles.srt
  word_subtitles,       \* word_subtitles.srt
  events,               \* subtitles_highlight.ass, its Dialogue lines
  arg,                  \* the arguments of a function called on its own
  ret,                  \* what it returned
  retries,              \* generate_script: its local counter
  requests,             \* generate_script: what each request posted so far came to
  returned,             \* generate_script: its return value
  program,              \* the entry point run: "main.py" or "main_render.py"
  disk,                 \* what exists on disk when the run starts
  idx,                  \* main: number of the topic under way, from 1
  overall_success,      \* main: no stage of any topic has failed so far
  tts_models,           \* the TTS model instances loaded so far
  stages,               \* the stage calls made so far and what they returned
  exit,                 \* how the entry point ended: "True", "False", "exception"
  pc                    \* the call or statement the function under way is at

vars == <<script, temp_audio_exists, temp_audio, total_duration, transcriber, transcript,
          master_probe, result, segments, character_subtitles, subtitles, word_subtitles,
          events, arg, ret, retries, requests, returned, program, disk, idx,
          overall_success, tts_models, stages, exit, pc>>

\* the variables of main
driver == <<program, disk, idx, overall_success, tts_models, stages, exit>>

\* main is not running
DriverIdle ==
  /\ program = ""
  /\ disk = <<>>
  /\ idx = 0
  /\ overall_success = TRUE
  /\ tts_models = 0
  /\ stages = <<>>
  /\ exit = ""

\* the variables of a function called on its own, and those of generate_script
calls == <<arg, ret>>

llm == <<retries, requests, returned>>

\* the variables of the subtitle engine
engine == <<script, temp_audio_exists, temp_audio, total_duration, transcriber, transcript,
            master_probe, result, segments, character_subtitles, subtitles, word_subtitles,
            events>>

inputs == <<script, temp_audio_exists, temp_audio, total_duration, transcriber, transcript,
            master_probe>>

\* what model.transcribe can do
TranscriberOutcomes == {"returns", "raises", "no_segments"}

\* transcripts tried together with every script and clip set
FewTranscripts ==
  { <<>>, WordTimedScenario,
    << [start |-> T(0), end |-> T(15), text |-> <<"N", "o">>,
        words |-> << [word |-> <<"N", "o">>, start |-> T(0), end |-> T(15)] >>] >> }

\* scripts tried together with every transcript
FewScripts ==
  { << [actor |-> "Stewie", line |-> <<"N", "o">>] >>,
    << [actor |-> "Peter", line |-> TheSkyIsBlueToday],
       [actor |-> "Stewie", line |-> <<"N", "o">>] >> }

\* temp_audio holds the clips of the script; the master audio is their
\* concatenation and the transcript lies within it
InitWithClips ==
  /\ script \in Scripts
  /\ temp_audio_exists = TRUE
  /\ temp_audio \in ClipSets(script)
  /\ total_duration = SumDurations(temp_audio)
  /\ transcriber \in TranscriberOutcomes
  /\ transcript \in IF transcriber = "returns"
                    THEN { t \in FewTranscripts : FLeq(TranscriptEnd(t), total_duration) }
                    ELSE { <<>> }

\* no temp_audio directory in output_dir
InitWithoutClips ==
  /\ script \in FewScripts
  /\ temp_audio_exists = FALSE
  /\ temp_audio = {}
  /\ transcriber \in TranscriberOutcomes
  /\ transcript \in IF transcriber = "returns" THEN Transcripts ELSE { <<>> }
  /\ total_duration = TranscriptEnd(transcript)

Init ==
  /\ InitWithClips \/ InitWithoutClips
  /\ master_probe = TRUE
  /\ arg = <<>> /\ ret = <<>>
  /\ retries = 0 /\ requests = <<>> /\ returned = <<>>
  /\ result = <<>>
  /\ segments = <<>>
  /\ character_subtitles = <<>>
  /\ subtitles = <<>>
  /\ word_subtitles = <<>>
  /\ events = <<>>
  /\ pc = "start"
  /\ DriverIdle

\* faulty variant of Overwrite: the file is opened for appending
Overwrite_Append(old, new) == old \o new

\* `with open(output_path, 'w', encoding='utf-8') as f`: what the file held
\* is discarded
Overwrite(old, new) == new

\* `if temp_audio_dir.exists():`
CreateSimpleSubtitles ==
  /\ pc = "start"
  /\ pc' = IF temp_audio_exists THEN "segments" ELSE "transcribe"
  /\ UNCHANGED <<calls, llm, inputs, result, segments, character_subtitles, subtitles,
                 word_subtitles, events>>
  /\ UNCHANGED driver

CreateSegmentsFromAudioFiles ==
  /\ pc = "segments"
  /\ segments' = create_segments_from_audio_files(temp_audio, script)
  /\ pc' = "character_from_segments"
  /\ UNCHANGED <<calls, llm, inputs, result, character_subtitles, subtitles, word_subtitles, events>>
  /\ UNCHANGED driver

CreateCharacterSrtFromSegments ==
  /\ pc = "character_from_segments"
  /\ character_subtitles' = create_character_srt_from_segments(segments)
  /\ pc' = "transcribe"
  /\ UNCHANGED <<calls, llm, inputs, result, segments, subtitles, word_subtitles, events>>
  /\ UNCHANGED driver

\* model.transcribe(str(audio_path), word_timestamps=True); an exception it
\* raises leaves create_simple_subtitles, nothing catches it
Transcribe ==
  /\ pc = "transcribe"
  /\ IF transcriber = "raises"
     THEN result' = result /\ pc' = "aborted"
     ELSE result' = transcript /\ pc' = "srt"
  /\ UNCHANGED <<calls, llm, inputs, segments, character_subtitles, subtitles, word_subtitles, events>>
  /\ UNCHANGED driver

\* `create_srt_file(result["segments"], subtitle_file)`: the argument raises
\* KeyError when the key is missing, before any file is opened
CreateSrtFile ==
  /\ pc = "srt"
  /\ IF transcriber = "no_segments"
     THEN subtitles' = subtitles /\ pc' = "aborted"
     ELSE subtitles' = Overwrite(subtitles, create_srt_file(result)) /\ pc' = "word"
  /\ UNCHANGED <<calls, llm, inputs, result, segments, character_subtitles, word_subtitles, events>>
  /\ UNCHANGED driver

\* a KeyError or TypeError leaves create_simple_subtitles; nothing catches it
CreateWordLevelSrt ==
  /\ pc = "word"
  /\ LET r == create_word_level_srt(result)
     IN  /\ word_subtitles' = Overwrite(word_subtitles, r.out)
         /\ pc' = IF r.raised THEN "raised"
                  ELSE IF temp_audio_exists THEN "ass" ELSE "character"
  /\ UNCHANGED <<calls, llm, inputs, result, segments, character_subtitles, subtitles, events>>
  /\ UNCHANGED driver

CreateCharacterSrtFile ==
  /\ pc = "character"
  /\ character_subtitles' = create_character_srt_file(result, script)
  /\ pc' = "ass"
  /\ UNCHANGED <<calls, llm, inputs, result, segments, subtitles, word_subtitles, events>>
  /\ UNCHANGED driver

CreateAssHighlightSubtitles ==
  /\ pc = "ass"
  /\ events' = Overwrite(events, generate_ass_highlight(result))
  /\ pc' = "done"
  /\ UNCHANGED <<calls, llm, inputs, result, segments, character_subtitles, subtitles, word_subtitles>>
  /\ UNCHANGED driver

Next ==
  \/ CreateSimpleSubtitles
  \/ CreateSegmentsFromAudioFiles
  \/ CreateCharacterSrtFromSegments
  \/ Transcribe
  \/ CreateSrtFile
  \/ CreateWordLevelSrt
  \/ CreateCharacterSrtFile
  \/ CreateAssHighlightSubtitles

Spec == Init /\ [][Next]_vars

\* ----------------------------------------- the builders called twice
\* create_srt_file, create_word_level_srt and generate_ass_highlight run on
\* the segments of a transcript, then once more on the same segments and the
\* same output paths.  ret keeps what the first run wrote.
TwiceInit ==
  /\ transcript \in Transcripts
  /\ result = transcript
  /\ transcriber = "returns"
  /\ script = <<>>
  /\ temp_audio_exists = TRUE
  /\ temp_audio = {}
  /\ total_duration = TranscriptEnd(transcript)
  /\ master_probe = TRUE
  /\ arg = <<>> /\ ret = <<>>
  /\ retries = 0 /\ requests = <<>> /\ returned = <<>>
  /\ segments = <<>>
  /\ character_subtitles = <<>>
  /\ subtitles = <<>>
  /\ word_subtitles = <<>>
  /\ events = <<>>
  /\ pc = "srt"
  /\ DriverIdle

\* the second call of the three builders; the files of the first are in place
RunAgain ==
  /\ pc \in {"done", "raised"}
  /\ ret = <<>>
  /\ ret' = <<subtitles, word_subtitles, events>>
  /\ pc' = "srt"
  /\ UNCHANGED <<arg, llm, inputs, result, segments, character_subtitles, subtitles,
                 word_subtitles, events>>
  /\ UNCHANGED driver

TwiceNext ==
  \/ CreateSrtFile
  \/ CreateWordLevelSrt
  \/ CreateAssHighlightSubtitles
  \/ RunAgain

TwiceSpec == TwiceInit /\ [][TwiceNext]_vars

\* ------------------------------------------- the attribution track read
\* render_video reads character_subtitles.srt back and builds the overlay
\* filter from it.  The file is its lines: digits says that the stripped line
\* is a number, times holds the two timestamps of a "start --> end" line.
FileLines(cues) ==
  [n \in 1..(4 * Len(cues)) |->
     LET cue == cues[(n + 3) \div 4] IN
     IF n % 4 = 1 THEN [digits |-> TRUE, times |-> <<>>, text |-> ""]
     ELSE IF n % 4 = 2 THEN [digits |-> FALSE, times |-> <<cue.start, cue.end>>, text |-> ""]
     ELSE IF n % 4 = 3 THEN [digits |-> FALSE, times |-> <<>>, text |-> cue.text]
     ELSE [digits |-> FALSE, times |-> <<>>, text |-> ""]]

\* faulty variant of parse_srt_time: the milliseconds are read as hundredths
parse_srt_time_Hundredths(t) ==
  FAdd(FromInt(t[1] * 3600 + t[2] * 60 + t[3]), FDivInt(t[4], 100))

\* parse_srt_time: `h * 3600 + m * 60 + s + ms / 1000.0`
parse_srt_time(t) ==
  FAdd(FromInt(t[1] * 3600 + t[2] * 60 + t[3]), FDivInt(t[4], 1000))

\* the while loop of parse_character_subtitles, i counted from 1; a missing
\* line (IndexError) or a line that is not "start --> end" (ValueError)
\* moves on by one line
RECURSIVE ParseLoop(_, _, _)
ParseLoop(lines, i, character_timings) ==
  IF i > Len(lines) THEN character_timings
  ELSE IF lines[i].digits /\ i + 2 <= Len(lines) /\ lines[i + 1].times # <<>>
       THEN ParseLoop(lines, i + 4,
                      Append(character_timings,
                             [start     |-> parse_srt_time(lines[i + 1].times[1]),
                              end       |-> parse_srt_time(lines[i + 1].times[2]),
                              character |-> lines[i + 2].text]))
       ELSE ParseLoop(lines, i + 1, character_timings)

parse_character_subtitles(cues) == ParseLoop(FileLines(cues), 1, <<>>)

\* character.lower()
Lower(character) ==
  IF character = "Peter" THEN "peter"
  ELSE IF character = "Stewie" THEN "stewie"
  ELSE character

\* create_character_filter_complex: the between(t,start,end) terms of each
\* overlay's enable expression
create_character_filter_complex(character_timings) ==
  LET Of(who) == SelectSeq(character_timings, LAMBDA timing : Lower(timing.character) = who)
  IN  [peter |-> Of("peter"), stewie |-> Of("stewie")]

\* the sum of between(t,start,end) terms is not zero at time t; between is 1
\* when start <= t <= end
Enabled(terms, t) ==
  \E k \in 1..Len(terms) : FLeq(terms[k].start, t) /\ FLeq(t, terms[k].end)

\* the overlays the filter shows on the frame at time t
Visible(filter, t) ==
  (IF Enabled(filter.peter, t) THEN {"peter"} ELSE {})
    \cup (IF Enabled(filter.stewie, t) THEN {"stewie"} ELSE {})

\* clip lengths: 1.5 s, 2.4 s, 1.4 s, 0.3 s and 1/3 s
DurationPool == { T(15), T(24), T(14), T(3), FDivInt(1, 3) }

\* contiguous character segments, as create_segments_from_audio_files builds
\* them, starting at the time first
RECURSIVE Contiguous(_, _)
Contiguous(turns, first) ==
  IF turns = <<>> THEN <<>>
  ELSE << [start |-> first, end |-> FAdd(first, Head(turns)[2]),
           character |-> Head(turns)[1], text |-> <<"N", "o">>] >>
         \o Contiguous(Tail(turns), FAdd(first, Head(turns)[2]))

AttributionTracks ==
  { Contiguous(turns, first) :
      turns \in SeqsUpTo(Characters \X DurationPool, MaxTurns) \ { <<>> },
      first \in { FromInt(0), FromInt(3599) } }

\* the frame times looked at: the start, the middle and the end of every
\* parsed segment
FrameTimes(character_timings) ==
  UNION { { character_timings[k].start,
            FAdd(character_timings[k].start,
                 FDiv(FSub(character_timings[k].end, character_timings[k].start), 2)),
            character_timings[k].end } : k \in 1..Len(character_timings) }

\* segments is the attribution track, character_subtitles the file written
\* from it, result the parsed character_timings, events the filter, arg the
\* time of a frame and ret the overlays visible on it
RenderInit ==
  /\ segments \in AttributionTracks
  /\ script = <<>>
  /\ temp_audio_exists = TRUE
  /\ temp_audio = {}
  /\ total_duration = segments[Len(segments)].end
  /\ transcriber = "returns"
  /\ transcript = <<>>
  /\ master_probe = TRUE
  /\ arg = <<>> /\ ret = <<>>
  /\ retries = 0 /\ requests = <<>> /\ returned = <<>>
  /\ result = <<>>
  /\ character_subtitles = <<>>
  /\ subtitles = <<>>
  /\ word_subtitles = <<>>
  /\ events = <<>>
  /\ pc = "attribution"
  /\ DriverIdle

WriteCharacterSrt ==
  /\ pc = "attribution"
  /\ character_subtitles' = Overwrite(character_subtitles,
                                      create_character_srt_from_segments(segments))
  /\ pc' = "parse"
  /\ UNCHANGED <<calls, llm, inputs, result, segments, subtitles, word_subtitles, events>>
  /\ UNCHANGED driver

ParseCharacterSubtitles ==
  /\ pc = "parse"
  /\ result' = parse_character_subtitles(character_subtitles)
  /\ pc' = "filter"
  /\ UNCHANGED <<calls, llm, inputs, segments, character_subtitles, subtitles,
                 word_subtitles, events>>
  /\ UNCHANGED driver

CreateCharacterFilterComplex ==
  /\ pc = "filter"
  /\ events' = create_character_filter_complex(result)
  /\ pc' = "render"
  /\ UNCHANGED <<calls, llm, inputs, result, segments, character_subtitles, subtitles,
                 word_subtitles>>
  /\ UNCHANGED driver

\* the compositor evaluates the enable expressions on one frame
RenderFrame ==
  /\ pc = "render"
  /\ \E t \in FrameTimes(result) :
       /\ arg' = <<t>>
       /\ ret' = Visible(events, t)
  /\ pc' = "frame"
  /\ UNCHANGED <<llm, inputs, result, segments, character_subtitles, subtitles,
                 word_subtitles, events>>
  /\ UNCHANGED driver

RenderNext ==
  \/ WriteCharacterSrt
  \/ ParseCharacterSubtitles
  \/ CreateCharacterFilterComplex
  \/ RenderFrame

RenderSpec == RenderInit /\ [][RenderNext]_vars

\* ------------------------------------- create_fallback_subtitles alone
\* create_fallback_subtitles(audio_path, script, output_dir).  Nothing in the
\* repository calls it; it is run here on its own.
FallbackInit ==
  /\ script \in FallbackScripts
  /\ master_probe \in BOOLEAN
  /\ arg = <<>> /\ ret = <<>>
  /\ retries = 0 /\ requests = <<>> /\ returned = <<>>
  /\ total_duration = T(60)
  /\ temp_audio_exists = FALSE
  /\ temp_audio = {}
  /\ transcriber = "raises"
  /\ transcript = <<>>
  /\ result = <<>>
  /\ segments = <<>>
  /\ character_subtitles = <<>>
  /\ subtitles = <<>>
  /\ word_subtitles = <<>>
  /\ events = <<>>
  /\ pc = "fallback"
  /\ DriverIdle

\* ffprobe on the master audio and `float(duration_result.stdout.strip())`:
\* with no output float('') raises ValueError, the `except Exception` returns
\* False
FallbackProbe ==
  /\ pc = "fallback"
  /\ pc' = IF master_probe THEN "fallback_estimate" ELSE "fallback_false"
  /\ UNCHANGED <<calls, llm, inputs, result, segments, character_subtitles, subtitles,
                 word_subtitles, events>>
  /\ UNCHANGED driver

\* the loop over the script; word_segments is built and not used again
FallbackEstimate ==
  /\ pc = "fallback_estimate"
  /\ segments' = FallbackEstimates(script).segments
  /\ pc' = "fallback_srt"
  /\ UNCHANGED <<calls, llm, inputs, result, character_subtitles, subtitles, word_subtitles, events>>
  /\ UNCHANGED driver

\* `create_srt_file(segments, subtitle_file)`
FallbackCreateSrtFile ==
  /\ pc = "fallback_srt"
  /\ subtitles' = create_srt_file(segments)
  /\ pc' = "fallback_word"
  /\ UNCHANGED <<calls, llm, inputs, result, segments, character_subtitles, word_subtitles, events>>
  /\ UNCHANGED driver

\* `create_word_level_srt(segments, word_subtitle_file)` and the return
FallbackCreateWordLevelSrt ==
  /\ pc = "fallback_word"
  /\ word_subtitles' = create_word_level_srt(segments).out
  /\ pc' = IF create_word_level_srt(segments).raised THEN "fallback_false"
           ELSE "fallback_true"
  /\ UNCHANGED <<calls, llm, inputs, result, segments, character_subtitles, subtitles, events>>
  /\ UNCHANGED driver

FallbackNext ==
  \/ FallbackProbe
  \/ FallbackEstimate
  \/ FallbackCreateSrtFile
  \/ FallbackCreateWordLevelSrt

FallbackSpec == FallbackInit /\ [][FallbackNext]_vars

\* ------------------------------------- the pure functions on their own
\* the engine's variables while another function runs
EngineIdle ==
  /\ script = <<>>
  /\ temp_audio_exists = FALSE
  /\ temp_audio = {}
  /\ total_duration = <<>>
  /\ transcriber = "returns"
  /\ transcript = <<>>
  /\ master_probe = TRUE
  /\ result = <<>>
  /\ segments = <<>>
  /\ character_subtitles = <<>>
  /\ subtitles = <<>>
  /\ word_subtitles = <<>>
  /\ events = <<>>

\* texts over a letter and the three characters escape_ass_text replaces
Texts == SeqsUpTo({"a", "{", "}", "\\"}, MaxText)

\* the fractions of a second and the whole seconds the times are made of
FractionPool ==
  { FDivInt(n, 1000) : n \in {0, 1, 9, 300, 400, 700, 999} }
    \cup { FDivInt(1, 3), FDivInt(9996, 10000) }

WholePool == {0, 1, 59, 3599, 3661}

TimePool == { FAdd(FromInt(w), f) : w \in WholePool, f \in FractionPool }

\* times a <= b
TimePairs == { p \in TimePool \X TimePool : FLeq(p[1], p[2]) }

CallInit ==
  /\ \/ pc = "escape_ass_text" /\ arg \in Texts
     \/ pc \in {"format_srt_time", "format_ass_time"} /\ arg \in TimePairs
  /\ ret = <<>>
  /\ retries = 0 /\ requests = <<>> /\ returned = <<>>
  /\ EngineIdle
  /\ DriverIdle

EscapeAssText ==
  /\ pc = "escape_ass_text"
  /\ ret' = escape_ass_text(arg)
  /\ pc' = "escaped"
  /\ UNCHANGED <<arg, llm, engine>>
  /\ UNCHANGED driver

\* format_srt_time applied to both times of the pair
FormatSrtTime ==
  /\ pc = "format_srt_time"
  /\ ret' = <<format_srt_time(arg[1]), format_srt_time(arg[2])>>
  /\ pc' = "srt_time"
  /\ UNCHANGED <<arg, llm, engine>>
  /\ UNCHANGED driver

\* format_ass_time applied to both times of the pair
FormatAssTime ==
  /\ pc = "format_ass_time"
  /\ ret' = <<format_ass_time(arg[1]), format_ass_time(arg[2])>>
  /\ pc' = "ass_time"
  /\ UNCHANGED <<arg, llm, engine>>
  /\ UNCHANGED driver

CallNext ==
  \/ EscapeAssText
  \/ FormatSrtTime
  \/ FormatAssTime

CallSpec == CallInit /\ [][CallNext]_vars

\* ----------------------------------------------------- generate_script
\* A JSON value is [type, value]: "str" with its characters, "number", "null",
\* "list" with its items, "dict" with a record of its keys.
\* The entries a generated script can be made of: a line spoken by a known
\* actor, by an unknown one and by a blank one, a blank line, an entry
\* without "actor", one without "line", one whose actor is a number and one
\* that is not a dict.
EntryPool ==
  { [type |-> "dict", value |-> [actor |-> [type |-> "str", value |-> a],
                                 line  |-> [type |-> "str", value |-> <<"N", "o">>]]] :
      a \in { <<"P", "e", "t", "e", "r">>, <<"B", "r", "i", "a", "n">>, <<" ">> } }
  \cup
  { [type |-> "dict", value |-> [actor |-> [type |-> "str", value |-> <<"P", "e", "t", "e", "r">>],
                                 line  |-> [type |-> "str", value |-> <<" ", " ">>]]] }
  \cup
  { [type |-> "dict", value |-> [line |-> [type |-> "str", value |-> <<"N", "o">>]]],
    [type |-> "dict", value |-> [actor |-> [type |-> "str", value |-> <<"P", "e", "t", "e", "r">>]]],
    [type |-> "dict", value |-> [actor |-> [type |-> "number", value |-> 7],
                                 line  |-> [type |-> "str", value |-> <<"N", "o">>]]],
    [type |-> "str", value |-> <<"N", "o">>] }

\* the values of script_data["script"]: lists of entries, and a non-list
ScriptValues ==
  { [type |-> "list", value |-> es] : es \in SeqsUpTo(EntryPool, MaxTurns) }
    \cup { [type |-> "dict", value |-> [actor |-> [type |-> "str", value |-> <<"N", "o">>]]] }

\* `isinstance(x, str) and x.strip()`
NonBlank(x) == x.type = "str" /\ Strip(x.value) # <<>>

\* the five tests validate_script_structure makes on one entry
EntryValid(entry) ==
  /\ entry.type = "dict"
  /\ Has(entry.value, "actor")
  /\ Has(entry.value, "line")
  /\ NonBlank(entry.value.actor)
  /\ NonBlank(entry.value.line)

validate_script_structure(the_script) ==
  /\ the_script.type = "list"
  /\ \A i \in 1..Len(the_script.value) : EntryValid(the_script.value[i])

\* faulty variant of max_retries: one attempt more
max_retries_Six == 5 + 1

max_retries == 5

\* the ways an attempt fails before a script is read from the response:
\* requests.RequestException, any other exception, no "response" key,
\* json.JSONDecodeError, no "script" key
FailureKinds ==
  {"request_error", "unexpected_error", "no_response", "invalid_json", "no_script"}

\* requests logs what each request posted so far came to
ScriptInit ==
  /\ retries = 0
  /\ requests = <<>>
  /\ returned = <<>>
  /\ arg = <<>> /\ ret = <<>>
  /\ EngineIdle
  /\ pc = "generate_script"
  /\ DriverIdle

\* one pass of the while loop whose request fails: retries += 1
AttemptFails ==
  /\ pc = "generate_script"
  /\ retries < max_retries
  /\ \E kind \in FailureKinds : requests' = Append(requests, kind)
  /\ retries' = retries + 1
  /\ UNCHANGED <<returned, pc, calls, engine>>
  /\ UNCHANGED driver

\* one pass whose response carries a "script": returned if it validates,
\* else retries += 1
ScriptReceived ==
  /\ pc = "generate_script"
  /\ retries < max_retries
  /\ \E the_script \in ScriptValues :
       IF validate_script_structure(the_script)
       THEN /\ requests' = Append(requests, "valid")
            /\ returned' = the_script
            /\ pc' = "returned"
            /\ UNCHANGED retries
       ELSE /\ requests' = Append(requests, "invalid_structure")
            /\ retries' = retries + 1
            /\ UNCHANGED <<returned, pc>>
  /\ UNCHANGED <<calls, engine>>
  /\ UNCHANGED driver

\* the loop condition fails: `return None`
GiveUp ==
  /\ pc = "generate_script"
  /\ ~(retries < max_retries)
  /\ returned' = [type |-> "null", value |-> <<>>]
  /\ pc' = "returned"
  /\ UNCHANGED <<retries, requests, calls, engine>>
  /\ UNCHANGED driver

ScriptNext ==
  \/ AttemptFails
  \/ ScriptReceived
  \/ GiveUp

ScriptSpec == ScriptInit /\ [][ScriptNext]_vars

\* every request returns or raises within its timeout, so the loop goes on
FairScriptSpec == ScriptSpec /\ WF_vars(ScriptNext)

\* ----------------------------------------------------------------- main
\* main() of main.py over its list of topics: one action per stage call
\* together with the test main makes on its result.  main_render.py is the
\* other entry point that calls create_simple_subtitles and render_video.
\* disk: ffmpeg and ollama answer; the voice samples, assets/input_videos,
\* assets/background_videos and the positioned character videos exist.
Disks ==
  [ffmpeg : BOOLEAN, ollama : BOOLEAN, voices : BOOLEAN, input_videos : BOOLEAN,
   background_videos : BOOLEAN, character_videos : BOOLEAN]

\* check_requirements(): ffmpeg runs, Ollama answers 200, every voice sample
\* exists, assets/input_videos holds an .mp4
check_requirements(d) == d.ffmpeg /\ d.ollama /\ d.voices /\ d.input_videos

\* the tests render_video makes before it renders: "" when they pass
RenderRefusal(d) ==
  IF ~d.background_videos THEN "no_background_video"
  ELSE IF ~d.character_videos THEN "no_character_video"
  ELSE ""

MainInit ==
  /\ program \in {"main.py", "main_render.py"}
  /\ disk \in Disks
  /\ idx = 1
  /\ overall_success = TRUE
  /\ tts_models = 0
  /\ stages = <<>>
  /\ exit = ""
  /\ arg = <<>> /\ ret = <<>>
  /\ retries = 0 /\ requests = <<>> /\ returned = <<>>
  /\ EngineIdle
  /\ pc = "import"

\* everything but main's variables and pc
outside == <<calls, llm, engine>>

\* one entry of stages
Stage(name, ok, model, cause) ==
  [topic |-> idx, stage |-> name, ok |-> ok, model |-> model, cause |-> cause]

\* `continue`: the next topic, or the end of the loop
Continue ==
  IF idx < MaxTopics THEN [pc |-> "script", idx |-> idx + 1]
  ELSE [pc |-> "return", idx |-> idx]

\* faulty variant of After: the result of the stage is not tested
After_NotTested(ok, next) ==
  [pc |-> next, idx |-> idx, overall_success |-> overall_success]

\* `if not <result>:` after a stage call: overall_success = False and
\* continue
After(ok, next) ==
  IF ok
  THEN [pc |-> next, idx |-> idx, overall_success |-> overall_success]
  ELSE [pc |-> Continue.pc, idx |-> Continue.idx, overall_success |-> FALSE]

\* the imports at the top of the entry point.  main_render.py has
\* `from config import TOPIC, ...`, and config.py defines no TOPIC (its line 3
\* is a comment): the ImportError ends main_render.py before its main exists
Import ==
  /\ pc = "import"
  /\ IF program = "main_render.py"
     THEN pc' = "exited" /\ exit' = "exception"
     ELSE pc' = "check_requirements" /\ UNCHANGED exit
  /\ UNCHANGED <<program, disk, idx, overall_success, tts_models, stages, outside>>

\* `if not check_requirements(): return False`
CheckRequirements ==
  /\ pc = "check_requirements"
  /\ IF check_requirements(disk)
     THEN pc' = "script" /\ UNCHANGED exit
     ELSE pc' = "exited" /\ exit' = "False"
  /\ UNCHANGED <<program, disk, idx, overall_success, tts_models, stages, outside>>

\* generate_script returns a script or None; a script is saved as
\* script.json, and the title and description are generated whatever comes
\* of them
GenerateScript ==
  /\ pc = "script"
  /\ \E ok \in BOOLEAN :
       /\ stages' = Append(stages, Stage("script", ok, 0, ""))
       /\ pc' = After(ok, "setup_tts").pc
       /\ idx' = After(ok, "setup_tts").idx
       /\ overall_success' = After(ok, "setup_tts").overall_success
  /\ UNCHANGED <<program, disk, tts_models, exit, outside>>

\* setup_tts_model() loads a model, or returns None
SetupTts ==
  /\ pc = "setup_tts"
  /\ \E ok \in BOOLEAN :
       /\ tts_models' = IF ok THEN tts_models + 1 ELSE tts_models
       /\ stages' = Append(stages, Stage("setup_tts", ok, IF ok THEN tts_models + 1 ELSE 0, ""))
       /\ pc' = After(ok, "synthesize").pc
       /\ idx' = After(ok, "synthesize").idx
       /\ overall_success' = After(ok, "synthesize").overall_success
  /\ UNCHANGED <<program, disk, exit, outside>>

\* synthesize_audio(script, tts_model, temp_audio_dir) with the model just
\* loaded: the clips written, or None
SynthesizeAudio ==
  /\ pc = "synthesize"
  /\ \E ok \in BOOLEAN :
       /\ stages' = Append(stages, Stage("synthesize", ok, tts_models, ""))
       /\ pc' = After(ok, "combine").pc
       /\ idx' = After(ok, "combine").idx
       /\ overall_success' = After(ok, "combine").overall_success
  /\ UNCHANGED <<program, disk, tts_models, exit, outside>>

\* combine_audio(audio_files, master_audio_path): True once ffmpeg has
\* written master_audio.wav
CombineAudio ==
  /\ pc = "combine"
  /\ \E ok \in BOOLEAN :
       /\ stages' = Append(stages, Stage("combine", ok, 0, ""))
       /\ pc' = After(ok, "subtitles").pc
       /\ idx' = After(ok, "subtitles").idx
       /\ overall_success' = After(ok, "subtitles").overall_success
  /\ UNCHANGED <<program, disk, tts_models, exit, outside>>

\* create_simple_subtitles returns True after writing its files, or an
\* exception leaves it (the transcriber fails, a word entry has no "word");
\* it never returns False and nothing in main catches the exception
CreateSubtitles ==
  /\ pc = "subtitles"
  /\ \E raises \in BOOLEAN :
       /\ stages' = Append(stages, Stage("subtitles", ~raises, 0,
                                         IF raises THEN "exception" ELSE ""))
       /\ pc' = IF raises THEN "exited" ELSE "render"
       /\ exit' = IF raises THEN "exception" ELSE exit
  /\ UNCHANGED <<program, disk, idx, overall_success, tts_models, outside>>

\* render_video(master_audio_path, topic_output_dir): False when a video it
\* needs is missing or ffmpeg fails; main goes on to the next topic either
\* way
RenderVideo ==
  /\ pc = "render"
  /\ \E rendered \in BOOLEAN :
       LET cause == IF RenderRefusal(disk) # "" THEN RenderRefusal(disk)
                    ELSE IF rendered THEN "" ELSE "ffmpeg"
       IN  /\ stages' = Append(stages, Stage("render", cause = "", 0, cause))
           /\ overall_success' = (overall_success /\ cause = "")
  /\ pc' = Continue.pc
  /\ idx' = Continue.idx
  /\ UNCHANGED <<program, disk, tts_models, exit, outside>>

\* `return overall_success` after the loop
Return ==
  /\ pc = "return"
  /\ exit' = IF overall_success THEN "True" ELSE "False"
  /\ pc' = "exited"
  /\ UNCHANGED <<program, disk, idx, overall_success, tts_models, stages, outside>>

MainNext ==
  \/ Import
  \/ CheckRequirements
  \/ GenerateScript
  \/ SetupTts
  \/ SynthesizeAudio
  \/ CombineAudio
  \/ CreateSubtitles
  \/ RenderVideo
  \/ Return

MainSpec == MainInit /\ [][MainNext]_vars

\* ------------------------------------------------------- properties
\* the fields of a cue that are written to the file
Written(cue) ==
  [index |-> cue.index, start |-> cue.start, end |-> cue.end, text |-> cue.text]

WrittenTrack(track) == [k \in 1..Len(track) |-> Written(track[k])]

\* create_srt_file has returned
SrtWritten == pc \in {"word", "character", "ass", "done", "raised"}

\* create_word_level_srt has returned normally
WordTrackWritten == pc \in {"character", "ass", "done"}

\* create_segments_from_audio_files has returned
SegmentsBuilt == temp_audio_exists /\ pc \notin {"start", "segments"}

\* |a - b| < 2^-40 s: equal to floating-point tolerance
Near(a, b) ==
  BitLen(IF FLess(a, b) THEN BigSub(b, a) ELSE BigSub(a, b)) <= 75 - 40

\* C1. Minimum duration: every cue written to the line track spans at least
\* 0.5 s and every cue written to the word track at least 0.3 s, also for
\* tokens and segments with end <= start.
C1_MinimumDuration ==
  /\ \A k \in 1..Len(subtitles) :
       SrtMillis(subtitles[k].end) - SrtMillis(subtitles[k].start) >= 500
  /\ \A k \in 1..Len(word_subtitles) :
       SrtMillis(word_subtitles[k].end) - SrtMillis(word_subtitles[k].start) >= 300

\* the word entries the word track was written from, in order
WordTokens == [k \in 1..Len(word_subtitles) |-> word_subtitles[k].toks[1]]

\* start <= end for every token, and each token ends before the next starts
TokensOrdered ==
  /\ \A k \in 1..Len(WordTokens) : FLeq(WordTokens[k].start, WordTokens[k].end)
  /\ \A k \in 1..(Len(WordTokens) - 1) :
       FLeq(WordTokens[k].end, WordTokens[k + 1].start)

\* C2. Non-overlap: when the word tokens are time-ordered and non-overlapping,
\* adjacent cues of the word track satisfy cue[i].end <= cue[i+1].start.
C2_NonOverlap ==
  (WordTrackWritten /\ TokensOrdered) =>
    \A k \in 1..(Len(word_subtitles) - 1) :
      /\ FLeq(word_subtitles[k].t1, word_subtitles[k + 1].t0)
      /\ SrtMillis(word_subtitles[k].end) <= SrtMillis(word_subtitles[k + 1].start)

\* the clip of turn i (turns counted from 1, clip indices from 0)
ClipOfTurn(i) == CHOOSE f \in temp_audio : f.idx = i - 1

\* d_1 + ... + d_i of the probed durations, exactly
RECURSIVE DurationSum(_)
DurationSum(i) ==
  IF i = 0 THEN FromInt(0) ELSE BigAdd(DurationSum(i - 1), ClipOfTurn(i).duration)

\* N turns, N clips, every probe reports the clip's duration
AllClipsProbed ==
  /\ \A i \in 1..Len(script) : \E f \in temp_audio : f.idx = i - 1
  /\ \A f \in temp_audio : f.probe

\* C3. Attribution exactness: with N turns and N probed clips, the i-th
\* segment is [d_1+..+d_(i-1), d_1+..+d_i), to floating-point tolerance, and
\* carries script[i].actor; the first segment starts at 0 and each segment
\* starts where the previous one ends.
C3_AttributionExact ==
  (SegmentsBuilt /\ AllClipsProbed) =>
    /\ Len(segments) = Len(script)
    /\ \A i \in 1..Len(segments) :
         /\ Near(segments[i].start, DurationSum(i - 1))
         /\ Near(segments[i].end, DurationSum(i))
         /\ segments[i].character = script[i].actor
         /\ i = 1 => segments[i].start = FromInt(0)
         /\ i > 1 => segments[i].start = segments[i - 1].end

\* two probed clips of different lengths for two turns of different speakers
C3_Witness ==
  /\ SegmentsBuilt /\ AllClipsProbed
  /\ Len(script) = 2 /\ Len(segments) = 2
  /\ script[1].actor # script[2].actor
  /\ ClipOfTurn(1).duration # ClipOfTurn(2).duration

\* the events that display chunk k
EventsOfLine(k) == LET OfLine(e) == e.line = k IN SelectSeq(events, OfLine)

\* C4. Highlight consistency: a line cue of K word entries has exactly K
\* highlight events, and their intervals partition the cue's [start, end).
C4_HighlightPartition ==
  pc = "done" =>
    \A k \in 1..Len(subtitles) :
      subtitles[k].toks # <<>> =>
        LET evs == EventsOfLine(k) IN
        /\ Len(evs) = Len(subtitles[k].toks)
        /\ evs[1].t0 = subtitles[k].t0
        /\ evs[Len(evs)].t1 = subtitles[k].t1
        /\ \A j \in 1..(Len(evs) - 1) : evs[j].t1 = evs[j + 1].t0

\* C5. Cue indices: in the line track, the word track and the attribution
\* track the k-th cue written carries index k.
C5_CueIndices ==
  /\ \A k \in 1..Len(subtitles) : subtitles[k].index = k
  /\ \A k \in 1..Len(word_subtitles) : word_subtitles[k].index = k
  /\ \A k \in 1..Len(character_subtitles) : character_subtitles[k].index = k

\* a finished run over a transcript that starts with a skipped segment (no
\* words in its text), with at least two cues in every track
C5_Witness ==
  /\ pc = "done"
  /\ Len(result) >= 2
  /\ ~HasWordList(result[1]) /\ Split(Strip(Get(result[1], "text", <<>>))) = <<>>
  /\ Len(subtitles) >= 2 /\ Len(word_subtitles) >= 2 /\ Len(character_subtitles) >= 2

\* 0 <= start < end <= total_duration (degenerate intervals left aside)
WithinAudio(d) ==
  /\ Has(d, "start") /\ Has(d, "end")
  /\ FLeq(FromInt(0), d.start) /\ FLess(d.start, d.end) /\ FLeq(d.end, total_duration)

\* every segment and every token of the transcript lies in [0, total_duration]
TranscriptWithinAudio ==
  \A k \in 1..Len(transcript) :
    /\ WithinAudio(transcript[k])
    /\ \A j \in 1..Len(Get(transcript[k], "words", <<>>)) :
         Has(transcript[k].words[j], "word") /\ WithinAudio(transcript[k].words[j])

TrackWithinAudio(track) ==
  \A k \in 1..Len(track) :
    FLeq(FromInt(0), track[k].t0) /\ FLeq(track[k].t1, total_duration)

\* C6. Bounds: when the transcript lies within [0, total_audio_duration], so
\* does every cue of the line, word and attribution tracks.
C6_WithinAudio ==
  TranscriptWithinAudio =>
    /\ TrackWithinAudio(subtitles)
    /\ TrackWithinAudio(word_subtitles)
    /\ (~temp_audio_exists => TrackWithinAudio(character_subtitles))

\* C7. Malformed token: no builder raises, and a word entry lacking "word",
\* "start" or "end" contributes neither text nor timing to any cue or event.
C7_MalformedTokenSkipped ==
  /\ pc # "raised"
  /\ \A k \in 1..Len(subtitles) :
       \A j \in 1..Len(subtitles[k].toks) : WordKeysPresent(subtitles[k].toks[j])

\* C8. Scenario, word-timed input, chunk size 2: two line cues,
\* 1: 00:00:00,000 --> 00:00:00,900 "Hi there", 2: 00:00:00,900 --> 00:00:01,500 "friend".
C8_WordTimedScenario ==
  (SrtWritten /\ result = WordTimedScenario) =>
    WrittenTrack(subtitles) =
      << [index |-> 1, start |-> <<0, 0, 0, 0>>, end |-> <<0, 0, 0, 900>>,
          text |-> <<"H", "i", " ", "t", "h", "e", "r", "e">>],
         [index |-> 2, start |-> <<0, 0, 0, 900>>, end |-> <<0, 0, 1, 500>>,
          text |-> <<"f", "r", "i", "e", "n", "d">>] >>

C8_Witness == SrtWritten /\ result = WordTimedScenario /\ WORDS_PER_LINE = 2

\* C9 as stated. Scenario, fallback: "The sky is blue today" over 2.4 s from 0,
\* chunk size 2: three chunks that each span 0.8 s and start at 0.0, 0.8, 1.6.
C9_FallbackEqualSpans ==
  (SrtWritten /\ result = FallbackScenario) =>
    /\ Len(subtitles) = 3
    /\ \A k \in 1..Len(subtitles) :
         /\ Near(subtitles[k].t0, FMulInt(T(8), k - 1))
         /\ Near(subtitles[k].t1, FMulInt(T(8), k))

\* C9 as the code has it. The spans follow the word-count fraction: the
\* chunks start at 0.00, 0.96 and 1.92; the first two span 0.96 s and the
\* last one (one word, 0.48 s) is extended to the 0.5 s minimum.  The file
\* shows 1.92 and 2.42 truncated to 00:00:01,919 and 00:00:02,419.
C9_FallbackScenario ==
  (SrtWritten /\ result = FallbackScenario) =>
    /\ WrittenTrack(subtitles) =
         << [index |-> 1, start |-> <<0, 0, 0, 0>>, end |-> <<0, 0, 0, 960>>,
             text |-> <<"T", "h", "e", " ", "s", "k", "y">>],
            [index |-> 2, start |-> <<0, 0, 0, 960>>, end |-> <<0, 0, 1, 919>>,
             text |-> <<"i", "s", " ", "b", "l", "u", "e">>],
            [index |-> 3, start |-> <<0, 0, 1, 919>>, end |-> <<0, 0, 2, 419>>,
             text |-> <<"t", "o", "d", "a", "y">>] >>
    /\ \A k \in 1..Len(subtitles) :
         /\ Near(subtitles[k].t0, FDivInt(96 * (k - 1), 100))
         /\ Near(subtitles[k].t1, IF k = 3 THEN FDivInt(242, 100) ELSE FDivInt(96 * k, 100))

C9_Witness == SrtWritten /\ result = FallbackScenario /\ Len(subtitles) = 3

\* C10. Same chunk boundaries: the highlight events display, in order, exactly
\* the chunks of the line cues: every event shows the words of one line cue,
\* every line cue has an event, and the events follow the order of the cues.
C10_SameChunks ==
  /\ pc = "done" =>
       /\ \A i \in 1..Len(events) :
            /\ events[i].line \in 1..Len(subtitles)
            /\ events[i].chunk = subtitles[events[i].line].chunk
       /\ \A k \in 1..Len(subtitles) : \E i \in 1..Len(events) : events[i].line = k
       /\ \A i \in 1..(Len(events) - 1) : events[i].line <= events[i + 1].line
  \* also for the transcripts on which the word track raised before the
  \* highlight builder was called: the builder applied to result
  /\ pc = "raised" =>
       LET evs == generate_ass_highlight(result) IN
       /\ \A i \in 1..Len(evs) :
            /\ evs[i].line \in 1..Len(subtitles)
            /\ evs[i].chunk = subtitles[evs[i].line].chunk
       /\ \A k \in 1..Len(subtitles) : \E i \in 1..Len(evs) : evs[i].line = k
       /\ \A i \in 1..(Len(evs) - 1) : evs[i].line <= evs[i + 1].line

\* a finished run with a final partial chunk of word entries and with
\* interpolated chunks
C10_Witness ==
  /\ pc = "done"
  /\ \E k \in 1..Len(subtitles) :
       subtitles[k].toks # <<>> /\ Len(subtitles[k].toks) < WORDS_PER_LINE
  /\ \E k \in 1..Len(subtitles) :
       subtitles[k].toks # <<>> /\ Len(subtitles[k].toks) = WORDS_PER_LINE
  /\ \E k \in 1..Len(subtitles) : subtitles[k].toks = <<>>

\* the entries of a word list that have a "word" key, in order
WithWord(words) == LET HasWord(w) == Has(w, "word") IN SelectSeq(words, HasWord)

\* the word entries of all segments with a word list, in transcript order
RECURSIVE WordEntries(_)
WordEntries(segs) ==
  IF segs = <<>> THEN <<>>
  ELSE (IF HasWordList(Head(segs)) THEN WithWord(Head(segs).words) ELSE <<>>)
         \o WordEntries(Tail(segs))

\* the word entries the cues of a track were built from, in cue order
RECURSIVE CueTokens(_)
CueTokens(track) ==
  IF track = <<>> THEN <<>> ELSE Head(track).toks \o CueTokens(Tail(track))

\* C11. No word is lost by chunking: every word entry that has a "word" key
\* appears in exactly one line cue, in token order, whatever the last entry
\* of the word list is (a final partial chunk is emitted as its own cue).
C11_NoWordLost ==
  SrtWritten => CueTokens(subtitles) = WordEntries(result)

\* the word entries create_word_level_srt iterates over: those of every
\* segment whose "words" value is a list, malformed entries included
RECURSIVE AllWordEntries(_)
AllWordEntries(segs) ==
  IF segs = <<>> THEN <<>>
  ELSE (IF Has(Head(segs), "words") /\ Head(segs).words # None
        THEN Head(segs).words ELSE <<>>)
         \o AllWordEntries(Tail(segs))

\* every word entry of the transcript is a word token: it has "word", "start"
\* and "end"
OnlyWordTokens(segs) ==
  \A k \in 1..Len(AllWordEntries(segs)) : WordKeysPresent(AllWordEntries(segs)[k])

\* create_word_level_srt has been called and has returned or raised
WordTrackAttempted == pc \in {"character", "ass", "done", "raised"}

\* C12. Word track content: over word tokens the word track has exactly one
\* cue per token, in segment order then token order, starting at the token's
\* start and ending at the token's end unless the span is below 0.3 s; a
\* segment without word tokens (key absent, empty list or None) contributes
\* no cue and does not stop the track from being written.
C12_WordTrackContent ==
  (WordTrackAttempted /\ OnlyWordTokens(result)) =>
    /\ pc # "raised"
    /\ Len(word_subtitles) = Len(AllWordEntries(result))
    /\ \A k \in 1..Len(word_subtitles) :
         LET tok == AllWordEntries(result)[k] IN
         /\ word_subtitles[k].toks = <<tok>>
         /\ word_subtitles[k].text = Strip(tok.word)
         /\ word_subtitles[k].t0 = tok.start
         /\ word_subtitles[k].t1 =
              (IF FLeq(tok.start, tok.end) /\ FLeq(T(3), FSub(tok.end, tok.start))
               THEN tok.end ELSE FAdd(tok.start, T(3)))

\* the words of the dialogue turns with the turn they belong to, in order
RECURSIVE TurnWords(_, _)
TurnWords(the_script, i) ==
  IF i > Len(the_script) THEN <<>>
  ELSE [j \in 1..Len(Split(the_script[i].line)) |->
          [turn |-> i, word |-> Split(the_script[i].line)[j]]]
         \o TurnWords(the_script, i + 1)

\* C13. Fallback produces all tracks: create_fallback_subtitles writes a line
\* track and a word-by-word track in which every word of every turn has its
\* own cue, timed inside its turn's estimated interval.
C13_FallbackAllTracks ==
  pc = "fallback_true" =>
    /\ TurnWords(script, 1) # <<>> => subtitles # <<>>
    /\ Len(word_subtitles) = Len(TurnWords(script, 1))
    /\ \A k \in 1..Len(word_subtitles) :
         LET w == TurnWords(script, 1)[k] IN
         /\ word_subtitles[k].text = w.word
         /\ FLeq(segments[w.turn].start, word_subtitles[k].t0)
         /\ FLeq(word_subtitles[k].t1, segments[w.turn].end)

\* text with one backslash put before every '{', '}' and '\'
RECURSIVE EscapedOnce(_)
EscapedOnce(text) ==
  IF text = <<>> THEN <<>>
  ELSE (IF Head(text) \in {"{", "}", "\\"} THEN <<"\\", Head(text)>> ELSE <<Head(text)>>)
         \o EscapedOnce(Tail(text))

\* C14. Markup escaping: escape_ass_text returns its argument with each
\* literal '{', '}' and '\' preceded by exactly one escaping backslash.
C14_EscapedOnce ==
  pc = "escaped" => ret = EscapedOnce(arg)

\* 2^-40: the tolerance of a floating-point product
Tolerance == ShiftLeft(<<1>>, 75 - 40)

\* n is floor(frac * units), to floating-point tolerance:
\* n <= frac * units (+ 2^-40) and frac * units < n + 1
FloorOfScaled(n, frac, units) ==
  /\ FLeq(FromInt(n), BigAdd(BigMulSmall(frac, units), Tolerance))
  /\ FLess(BigMulSmall(frac, units), FromInt(n + 1))

\* the whole seconds a formatted time denotes
WholeSeconds(t) == t[1] * 3600 + t[2] * 60 + t[3]

\* the formatted time s is not later than the formatted time t
NotLater(s, t) ==
  WholeSeconds(s) < WholeSeconds(t) \/ (WholeSeconds(s) = WholeSeconds(t) /\ s[4] <= t[4])

\* the formatted time t denotes the time a truncated to 1/units s
Truncated(t, a, units) ==
  /\ WholeSeconds(t) = Floor(a)
  /\ t[2] \in 0..59 /\ t[3] \in 0..59
  /\ FloorOfScaled(t[4], Frac(a), units)

\* C15. Timestamp formatting truncates and is monotonic: for times a <= b,
\* format_srt_time(a) denotes a truncated to the millisecond and
\* format_ass_time(a) denotes a truncated to the centisecond (to
\* floating-point tolerance), and the formatted time of a is never later than
\* the formatted time of b.
C15_FormatTruncates ==
  /\ pc = "srt_time" =>
       /\ Truncated(ret[1], arg[1], 1000) /\ Truncated(ret[2], arg[2], 1000)
       /\ NotLater(ret[1], ret[2])
  /\ pc = "ass_time" =>
       /\ Truncated(ret[1], arg[1], 100) /\ Truncated(ret[2], arg[2], 100)
       /\ NotLater(ret[1], ret[2])

\* 1.4 s, written 00:00:01,399, formatted together with a later time in the
\* next hour
C15_Witness ==
  /\ pc = "srt_time"
  /\ arg[1] = T(14)
  /\ ret[1] = <<0, 0, 1, 399>>
  /\ ret[2][1] = 1

\* the words of a segment's text
TextWords(segment) == Split(Strip(Get(segment, "text", <<>>)))

\* the segments without word entries whose text has at least one word
Degraded(segs) ==
  { k \in 1..Len(segs) : ~HasWordList(segs[k]) /\ TextWords(segs[k]) # <<>> }

\* the first chunk of a segment's text
FirstChunk(segment) ==
  SubSeq(TextWords(segment), 1,
         IF Len(TextWords(segment)) < WORDS_PER_LINE THEN Len(TextWords(segment))
         ELSE WORDS_PER_LINE)

\* the number of chunks of n words
ChunkCount(n) == (n + WORDS_PER_LINE - 1) \div WORDS_PER_LINE

RECURSIVE DegradedChunks(_)
DegradedChunks(segs) ==
  IF segs = <<>> THEN 0
  ELSE (IF HasWordList(Head(segs)) THEN 0 ELSE ChunkCount(Len(TextWords(Head(segs)))))
         + DegradedChunks(Tail(segs))

\* cues and events interpolated from a segment's text
InterpolatedCues == LET NoToks(c) == c.toks = <<>> IN SelectSeq(subtitles, NoToks)

InterpolatedEvents == LET NoHl(e) == e.hl = 0 IN SelectSeq(events, NoHl)

\* C16. Degraded transcript still yields output: whichever segments lack word
\* entries, the line track and the highlight track are written, and every
\* such segment whose text has at least one word is shown by interpolation
\* from its start: its first chunk starts at the segment's start, and the
\* tracks have one interpolated cue per chunk of these segments.
C16_DegradedOutput ==
  /\ SrtWritten =>
       /\ Len(InterpolatedCues) = DegradedChunks(result)
       /\ \A k \in Degraded(result) : \E c \in 1..Len(InterpolatedCues) :
            /\ InterpolatedCues[c].t0 = Get(result[k], "start", FromInt(0))
            /\ InterpolatedCues[c].chunk = FirstChunk(result[k])
  /\ pc = "done" =>
       /\ Len(InterpolatedEvents) = DegradedChunks(result)
       /\ \A k \in Degraded(result) : \E c \in 1..Len(InterpolatedEvents) :
            /\ InterpolatedEvents[c].t0 = Get(result[k], "start", FromInt(0))
            /\ InterpolatedEvents[c].chunk = FirstChunk(result[k])

\* a finished run over a transcript in which one segment has word entries
\* and another, with three words or more in its text, has none
C16_Witness ==
  /\ pc = "done"
  /\ \E k \in 1..Len(result) : HasWordList(result[k])
  /\ \E k \in Degraded(result) : Len(TextWords(result[k])) > WORDS_PER_LINE

\* C17. Transcription failure degrades instead of aborting: when the
\* transcriber raises or returns a transcript without the "segments" key,
\* create_simple_subtitles catches it and still produces subtitles (through
\* create_fallback_subtitles); no exception leaves it.
C17_TranscriptionFailureDegrades ==
  transcriber # "returns" => pc # "aborted"

\* the clips whose duration the probe did not report get the estimate
\* max(2.0, 0.1 * len(line)) and every clip with a turn gets a segment
ClipProbeFailureTolerated ==
  SegmentsBuilt =>
    /\ Len(segments) = (IF Cardinality(temp_audio) < Len(script)
                         THEN Cardinality(temp_audio) ELSE Len(script))
    /\ \A i \in 1..Len(segments) :
         ~SortedByIndex(temp_audio)[i].probe =>
           segments[i].end =
             FAdd(segments[i].start, Max(FromInt(2), FMulInt(T(1), Len(script[i].line))))

\* C18. Unusable duration probe: when a probe of an audio duration fails,
\* the engine substitutes a duration estimated from the turn's text length
\* and continues, in create_segments_from_audio_files and in
\* create_fallback_subtitles; neither fails because of the probe.
C18_ProbeFailureTolerated ==
  /\ ClipProbeFailureTolerated
  /\ ~master_probe => pc # "fallback_false"

\* config.py CHARACTERS, the names as JSON strings hold them
KnownActors == { <<"P", "e", "t", "e", "r">>, <<"S", "t", "e", "w", "i", "e">> }

\* generate_script has returned a script
ScriptReturned == pc = "returned" /\ returned.type # "null"

\* C19. Script validation: generate_script returns a script only if every
\* entry has a non-empty "actor" and a non-empty "line" and its actor is one
\* of the known characters.
C19_ReturnedScriptValid ==
  ScriptReturned =>
    /\ returned.type = "list"
    /\ \A i \in 1..Len(returned.value) :
         LET entry == returned.value[i] IN
         /\ entry.type = "dict"
         /\ Has(entry.value, "actor") /\ Has(entry.value, "line")
         /\ entry.value.actor.type = "str" /\ entry.value.line.type = "str"
         /\ Strip(entry.value.actor.value) # <<>>
         /\ Strip(entry.value.line.value) # <<>>
         /\ entry.value.actor.value \in KnownActors

\* the attempts and the return value agree with the bounded retry
BoundedRetry ==
  /\ Len(requests) <= 5
  /\ pc = "generate_script" =>
       /\ Len(requests) = retries
       /\ \A k \in 1..Len(requests) : requests[k] # "valid"
  /\ ScriptReturned =>
       /\ requests[Len(requests)] = "valid"
       /\ \A k \in 1..(Len(requests) - 1) : requests[k] # "valid"
       /\ Len(requests) = retries + 1
  /\ (pc = "returned" /\ returned.type = "null") =>
       /\ Len(requests) = 5
       /\ \A k \in 1..Len(requests) : requests[k] # "valid"

\* C20. Bounded retry: generate_script posts at most 5 requests; it returns
\* the script of the first attempt that validates and posts nothing after
\* it; every failed attempt, of whatever kind, consumes exactly one attempt;
\* after 5 failed attempts it returns None; the call always terminates.
C20_BoundedRetry ==
  /\ []BoundedRetry
  /\ [][pc = "returned" => requests' = requests]_vars
  /\ <>(pc = "returned")

\* None returned after five failed attempts of five different kinds
C20_Witness ==
  /\ pc = "returned"
  /\ returned.type = "null"
  /\ Len(requests) = 5
  /\ Cardinality({ requests[k] : k \in 1..Len(requests) }) = 5

\* C30. Fallback highlight timing: for every chunk of a segment without word
\* tokens there is exactly one highlight event, it carries no colour
\* override, and its start and end are the start and end of the line cue of
\* the same chunk, whatever the segment's duration.
C30_FallbackHighlightTiming ==
  pc = "done" =>
    \A k \in 1..Len(subtitles) :
      subtitles[k].toks = <<>> =>
        /\ Len(EventsOfLine(k)) = 1
        /\ EventsOfLine(k)[1].hl = 0
        /\ EventsOfLine(k)[1].t0 = subtitles[k].t0
        /\ EventsOfLine(k)[1].t1 = subtitles[k].t1

\* C28. Clip-to-turn pairing: the segment built from the clip "<k>_<actor>.wav"
\* carries the speaker and the text of script[k], the turn the clip was
\* synthesized from, also when a skipped turn leaves a gap in the indices.
C28_ClipTurnPairing ==
  SegmentsBuilt =>
    \A j \in 1..Len(segments) :
      LET k == SortedByIndex(temp_audio)[j].idx IN
      /\ segments[j].character = script[k + 1].actor
      /\ segments[j].text = script[k + 1].line

\* create_character_srt_file has returned (no temp_audio directory)
PairedByPosition == ~temp_audio_exists /\ pc \in {"ass", "done"}

ShorterLength == IF Len(result) <= Len(script) THEN Len(result) ELSE Len(script)

\* C26. Fallback attribution: create_character_srt_file pairs the i-th
\* transcript segment with the i-th turn; it writes min(segments, turns)
\* cues, cue i carries script[i].actor and the i-th segment's own start and
\* end, and the segments beyond the last turn produce no cue.
C26_PositionalPairing ==
  PairedByPosition =>
    /\ Len(character_subtitles) = ShorterLength
    /\ \A i \in 1..Len(character_subtitles) :
         /\ character_subtitles[i].index = i
         /\ character_subtitles[i].text = script[i].actor
         /\ Has(result[i], "start") =>
              /\ character_subtitles[i].t0 = result[i].start
              /\ character_subtitles[i].start = format_srt_time(result[i].start)
         /\ Has(result[i], "end") =>
              /\ character_subtitles[i].t1 = result[i].end
              /\ character_subtitles[i].end = format_srt_time(result[i].end)

\* two segments paired with two turns of different speakers
C26_Witness ==
  /\ PairedByPosition
  /\ Len(result) = 2 /\ Len(script) = 2
  /\ script[1].actor # script[2].actor
  /\ character_subtitles[1].end # character_subtitles[2].end
  /\ Len(character_subtitles) = 2

\* more segments than turns: the last segment has no cue
C26_WitnessSurplus ==
  /\ PairedByPosition
  /\ Len(result) = 2 /\ Len(script) = 1
  /\ Len(character_subtitles) = 1

\* the second run of the builders is under way
SecondRun == ret # <<>>

SpeakersAt(t) ==
  { Lower(segments[k].character) :
      k \in { j \in 1..Len(result) : FLeq(result[j].start, t) /\ FLess(t, result[j].end) } }

\* C27. Only the active speaker is shown: on every frame at most one
\* character's overlay is visible, the speaker of the segment [start, end)
\* that contains the frame's time, also at the instant where one turn ends
\* and the next begins.
C27_OnlyActiveSpeaker ==
  pc = "frame" =>
    /\ Cardinality(ret) <= 1
    /\ ret = SpeakersAt(arg[1])

\* parse_character_subtitles has returned
Parsed == pc \in {"filter", "render", "frame"}

\* C29. Attribution round trip: parse_character_subtitles applied to the file
\* written by create_character_srt_from_segments returns as many entries, in
\* the same order, each with the same character and with start and end equal
\* to the original values truncated to whole milliseconds (to floating-point
\* tolerance).
C29_RoundTrip ==
  Parsed =>
    /\ Len(result) = Len(segments)
    /\ \A i \in 1..Len(result) :
         /\ result[i].character = segments[i].character
         /\ Truncated(character_subtitles[i].start, segments[i].start, 1000)
         /\ Truncated(character_subtitles[i].end, segments[i].end, 1000)
         /\ Near(result[i].start, FDivInt(SrtMillis(character_subtitles[i].start), 1000))
         /\ Near(result[i].end, FDivInt(SrtMillis(character_subtitles[i].end), 1000))

\* two segments of different speakers read back; the first ends at 1.4 s,
\* written 00:00:01,399 and read as 1.399
C29_Witness ==
  /\ Parsed
  /\ Len(result) = 2
  /\ result[1].character # result[2].character
  /\ segments[1].end = T(14)
  /\ character_subtitles[1].end = <<0, 0, 1, 399>>
  /\ result[1].end = FDivInt(1399, 1000)

\* the entries of stages that belong to topic k
StagesOf(k) == SelectSeq(stages, LAMBDA e : e.topic = k)

\* topic k went through its last stage, and all of them succeeded
Completed(k) ==
  \E j \in 1..Len(stages) :
    stages[j].topic = k /\ stages[j].stage = "render" /\ stages[j].ok

\* C21. Batch mode isolation: in main's topic loop a failed stage of topic k
\* is the last stage run for topic k, the loop still processes every
\* remaining topic, and main returns True exactly when every topic completed
\* all of its stages.
C21_BatchIsolation ==
  program = "main.py" =>
    /\ \A i \in 1..Len(stages) : \A j \in (i + 1)..Len(stages) :
         stages[i].topic = stages[j].topic => stages[i].ok
    /\ (pc = "exited" /\ stages # <<>>) =>
         /\ \A k \in 1..MaxTopics : StagesOf(k) # <<>>
         /\ exit \in {"True", "False"}
         /\ exit = "True" <=> \A k \in 1..MaxTopics : Completed(k)

\* position of a stage in an order of stages, 0 when it is not one of them
Position(order, name) ==
  IF \E p \in 1..Len(order) : order[p] = name
  THEN CHOOSE p \in 1..Len(order) : order[p] = name
  ELSE 0

\* every topic's stages were run in the given order, each after the one
\* before it had reported success for the same topic
InOrder(order) ==
  \A j \in 1..Len(stages) :
    LET p == Position(order, stages[j].stage) IN
    /\ p >= 1
    /\ p = 1 => (j = 1 \/ stages[j - 1].topic < stages[j].topic)
    /\ p > 1 => /\ j > 1
                /\ stages[j - 1].topic = stages[j].topic
                /\ stages[j - 1].stage = order[p - 1]
                /\ stages[j - 1].ok

ResourceMissing == ~disk.voices \/ ~disk.background_videos \/ ~disk.character_videos

\* C23. Preconditions are checked before the run: with a voice sample, a
\* background video or a character overlay video missing, check_requirements
\* returns False and no topic is started; once it has returned True,
\* render_video never fails because such a video is absent.
C23_PreconditionsChecked ==
  /\ (program = "main.py" /\ ResourceMissing /\ pc \notin {"import", "check_requirements"}) =>
       (stages = <<>> /\ exit = "False")
  /\ \A j \in 1..Len(stages) :
       stages[j].stage = "render" =>
         stages[j].cause \notin {"no_background_video", "no_character_video"}

\* C24. Single TTS model per run: within one run of main the TTS model is
\* loaded at most once and that instance serves every synthesize_audio call.
C24_SingleTtsModel ==
  /\ tts_models <= 1
  /\ \A i, j \in 1..Len(stages) :
       (stages[i].stage = "synthesize" /\ stages[j].stage = "synthesize") =>
         stages[i].model = stages[j].model

====
